---- MODULE Spec2Model ----
(***************************************************************************)
(* A model of the agentic conversation loop of kubectl-ai                  *)
(* (pkg/agent/conversation.go): Conversation.RunOneRound, the textual      *)
(* tool-use shim (candidateToShimCandidate, extractJSON,                   *)
(* parseReActResponse) and the conversion of a parsed ReAct response into  *)
(* parts and function calls.                                               *)
(*                                                                         *)
(* Strings that the shim scans are sequences of characters.  The fence     *)
(* markers are spelled out character by character; a JSON member (a        *)
(* "key": value pair together with its separating comma) is one character  *)
(* of the alphabet, so that a JSON text is  {  members  }.                 *)
(***************************************************************************)
EXTENDS Integers, Sequences, FiniteSets, TLC

(***************************************************************************)
(* Bounds of the model.                                                    *)
(***************************************************************************)
MaxIter == 3      \* largest value of Conversation.MaxIterations explored
MaxCalls == 2     \* most function calls the model emits in one turn

VARIABLES
    pc,                 \* position of the control flow of RunOneRound
    SkipPermissions,    \* Conversation.SkipPermissions
    EnableToolUseShim,  \* Conversation.EnableToolUseShim
    MaxIterations,      \* Conversation.MaxIterations
    currentIteration,   \* local currentIteration
    currChatContent,    \* local currChatContent
    functionCalls,      \* local functionCalls of the current turn
    callIdx,            \* position of the range loop over functionCalls
    buffer,             \* local buffer of candidateToShimCandidate
    turnText,           \* the text the model streams in this turn (shim mode)
    rest,               \* the part of turnText not yet streamed
    result,             \* value returned by the last RunOneRound
    sent,               \* SendStreaming requests of this round
    log,                \* history: prompts, answers and tool runs of this turn, in order
    errorBlocks,        \* error blocks added to the document in this round
    choseTwo,           \* history: "no", or the user answered "2" in "this" or an "earlier" round
    client,             \* mcp.Client.client: the transport handle (0 is nil)
    transports,         \* history: for each transport ever created, the Close calls on it
    gpc,                \* position of each caller of the Client's methods
    ret,                \* value returned by each caller's last call
    overlapped,         \* history: a call began while another call was in progress
    wire,               \* history: the requests each caller's Connect sent, with their outcome
    ctxDone,            \* the ctx of each caller's call in progress is cancelled
    parent,             \* the context the timeouts of Connect's steps derive from
    reply,             \* history: the server's answer to each caller's CallTool, and the string returned
    rpc,                \* position of the control flow of RetryOperation
    retryConfig,        \* parameter config of RetryOperation
    attempt,            \* local attempt of RetryOperation
    lastErr,            \* local lastErr of RetryOperation
    cancelled,          \* ctx.Done() of RetryOperation's context is closed
    mcpArgs,            \* one entry of the args of MCPTool.Run: key and value
    convertedArgs,      \* the entry of convertedArgs made from it
    vpc,                \* "args" before convertArgsForMCP, "converted" after
    cfg,                \* the *Config in memory (nil until LoadConfig returned one)
    target,             \* the file at the registry's path
    tmp,                \* the temporary file of the Save in progress
    cpc,                \* position of the registry operation in progress
    cont,               \* who called Save: a caller, or LoadConfig (default, migration)
    cret,               \* what the last registry operation returned
    saving,             \* the bytes the Save in progress writes
    prev,               \* history: the target when the last Save began
    steps,              \* history: the file operations of the last Save, in order
    written,            \* history: the servers of the Save that produced the target
    source,             \* history: what the last LoadConfig read
    mu,                 \* Manager.mu: the thread holding the write lock, the threads holding the read lock
    frames,             \* per thread: the Manager method it runs, its position and its locals
    cancelledAt,        \* history: where RetryOperation was when the context was cancelled
    rret,               \* value returned by the last RetryOperation
    trace,              \* history: invocations and waits of this RetryOperation, in order
    servers,            \* Manager.config.Servers: the names of the configured servers
    clients,            \* Manager.clients: server name -> the Client stored for it
    objs,               \* the Client objects the live map points to
    mpc,                \* position of the control flow of the Manager's operation
    idx,                \* position of ConnectAll's loop over config.Servers
    todo,               \* entries the range loop of Close / ListAvailableTools has not visited
    errs,               \* local errs of ConnectAll / Close
    tools,              \* local tools of ListAvailableTools
    mret,               \* value returned by the Manager's last operation
    made,               \* Clients constructed by NewClient so far
    before,             \* history: Manager.clients when the operation began
    connectLog,         \* history: the Connect calls of this ConnectAll, in order
    closeLog,           \* history: the Clients this Close called Close on
    failedListing,      \* history: servers whose ListTools failed in this operation
    disk,               \* the temporary directories that exist on disk
    workDir,            \* Conversation.workDir
    RemoveWorkDir,      \* Conversation.RemoveWorkDir
    newDir,             \* local workDir of Conversation.Init
    dirsMade,           \* directories os.MkdirTemp has created so far
    wpc,                \* position of the control flow of Conversation.Init
    wret                \* what the last Init or Close returned, and what Close did

agentVars == <<pc, SkipPermissions, EnableToolUseShim, MaxIterations, currentIteration,
               currChatContent, functionCalls, callIdx, buffer, turnText, rest, result,
               sent, log, errorBlocks, choseTwo>>
clientVars == <<client, transports, gpc, ret, overlapped, wire, ctxDone, parent, reply>>
retryVars == <<rpc, retryConfig, attempt, lastErr, cancelled, cancelledAt, rret, trace>>
managerVars == <<servers, clients, objs, mpc, idx, todo, errs, tools, mret, made, before,
                 connectLog, closeLog, failedListing>>
lockVars == <<mu, frames>>
configVars == <<cfg, target, tmp, cpc, cont, cret, saving, prev, steps, written, source>>
argVars == <<mcpArgs, convertedArgs, vpc>>
workDirVars == <<disk, workDir, RemoveWorkDir, newDir, dirsMade, wpc, wret>>
vars == <<agentVars, clientVars, retryVars, managerVars, lockVars, configVars, argVars,
          workDirVars>>

\* the variables of the other components, as seen from each component
outsideAgent == <<clientVars, retryVars, managerVars, lockVars, configVars, argVars, workDirVars>>
outsideClient == <<agentVars, retryVars, managerVars, lockVars, configVars, argVars, workDirVars>>
outsideRetry == <<agentVars, clientVars, managerVars, lockVars, configVars, argVars, workDirVars>>
outsideManager == <<agentVars, clientVars, lockVars, configVars, argVars, workDirVars>>
outsideLock == <<agentVars, clientVars, retryVars, servers, objs, mpc, idx, todo, errs, tools, mret,
                 made, before, connectLog, closeLog, failedListing, configVars, argVars,
                 workDirVars>>
outsideConfig == <<agentVars, clientVars, retryVars, managerVars, lockVars, argVars, workDirVars>>
outsideArgs == <<agentVars, clientVars, retryVars, managerVars, lockVars, configVars,
                 workDirVars>>
outsideWorkDir == <<clientVars, retryVars, managerVars, lockVars, configVars, argVars>>

(***************************************************************************)
(* Dynamically typed values (Go's any): a dynamic type and a value.        *)
(***************************************************************************)
Str(s) == [t |-> "string", v |-> s]
NilVal == [t |-> "nil", v |-> ""]
BoolVal(b) == [t |-> "bool", v |-> b]

\* m[key] of a Go map[string]any: the nil interface when the key is absent
MapGet(m, key) == IF key \in DOMAIN m THEN m[key] ELSE NilVal

\* delete(m, key)
MapDelete(m, key) == [k \in (DOMAIN m) \ {key} |-> m[k]]

(***************************************************************************)
(* Character strings.                                                      *)
(***************************************************************************)
BT == "BT"      \* the backtick character
NL == "NL"      \* the newline character
SP == "SP"      \* the space character

\* strings.Index(s, sub): 0-based position of the first occurrence, or -1
Index(s, sub) ==
    LET hits == {i \in 0..(Len(s) - Len(sub)) : SubSeq(s, i + 1, i + Len(sub)) = sub}
    IN IF hits = {} THEN -1 ELSE CHOOSE i \in hits : \A j \in hits : i <= j

\* strings.LastIndex(s, sub): 0-based position of the last occurrence, or -1
LastIndex(s, sub) ==
    LET hits == {i \in 0..(Len(s) - Len(sub)) : SubSeq(s, i + 1, i + Len(sub)) = sub}
    IN IF hits = {} THEN -1 ELSE CHOOSE i \in hits : \A j \in hits : i >= j

jsonBlockMarker == <<BT, BT, BT, "j", "s", "o", "n">>
fence == <<BT, BT, BT>>

\* s[lo:hi] of Go; Go panics when lo > hi
Slice(s, lo, hi) == SubSeq(s, lo + 1, hi)

(***************************************************************************)
(* ReActResponse and Action, and the JSON texts the model can emit.        *)
(* A member character stands for one "key": value pair of the object.      *)
(***************************************************************************)
NoAction == [present |-> FALSE, Name |-> "", Reason |-> "", Command |-> "",
             ModifiesResource |-> ""]

Action(name, reason, command, mod) ==
    [present |-> TRUE, Name |-> name, Reason |-> reason, Command |-> command,
     ModifiesResource |-> mod]

\* "thought": "t"
MThought == "T"
\* "answer": "a"
MAnswer == "W"
\* "action": {"name":"foo","reason":"r","command":"c","modifies_resource":"no"}
MActionNo == "A"
\* "action": {"name":"bar","reason":"r2","command":"c2","modifies_resource":"yes"}
MActionYes == "B"

Members == {MThought, MAnswer, MActionNo, MActionYes}

ActionFoo == Action("foo", "r", "c", "no")
ActionBar == Action("bar", "r2", "c2", "yes")

ZeroReAct == [Thought |-> "", Answer |-> "", Action |-> NoAction]

\* the effect of one member on the struct being decoded
SetMember(r, m) ==
    CASE m = MThought -> [r EXCEPT !.Thought = "t"]
      [] m = MAnswer -> [r EXCEPT !.Answer = "a"]
      [] m = MActionNo -> [r EXCEPT !.Action = ActionFoo]
      [] m = MActionYes -> [r EXCEPT !.Action = ActionBar]
      [] OTHER -> r

RECURSIVE DecodeMembers(_, _)
DecodeMembers(r, ms) ==
    IF ms = <<>> THEN r ELSE DecodeMembers(SetMember(r, Head(ms)), Tail(ms))

SelectSeqNot(s, c) == SelectSeq(s, LAMBDA x : x # c)

\* json.Unmarshal into a ReActResponse: the text must be one object, with
\* insignificant blanks allowed between its tokens and nothing after it
jsonUnmarshal(text) ==
    LET toks == SelectSeqNot(SelectSeqNot(text, SP), NL)
        n == Len(toks)
        ok == /\ n >= 2
              /\ toks[1] = "{"
              /\ toks[n] = "}"
              /\ \A i \in 2..(n - 1) : toks[i] \in Members
    IN IF ok THEN [ok |-> TRUE, resp |-> DecodeMembers(ZeroReAct, SubSeq(toks, 2, n - 1))]
       ELSE [ok |-> FALSE, resp |-> ZeroReAct]

\* strings.ReplaceAll(s, "\n", "")
ReplaceAllNL(s) == SelectSeqNot(s, NL)

IsSpace(c) == c \in {SP, NL}

\* strings.TrimSpace(s)
RECURSIVE TrimLeft(_)
TrimLeft(s) == IF s # <<>> /\ IsSpace(Head(s)) THEN TrimLeft(Tail(s)) ELSE s

RECURSIVE TrimRight(_)
TrimRight(s) ==
    IF s # <<>> /\ IsSpace(s[Len(s)]) THEN TrimRight(SubSeq(s, 1, Len(s) - 1)) ELSE s

TrimSpace(s) == TrimRight(TrimLeft(s))

extractJSON(s) ==
    LET first == Index(s, jsonBlockMarker)
        last == LastIndex(s, fence)
    IN IF first = -1 \/ last = -1 \/ first = last
       THEN [data |-> <<>>, found |-> FALSE]
       ELSE [data |-> Slice(s, first + Len(jsonBlockMarker), last), found |-> TRUE]

parseReActResponse(input) ==
    LET ex == extractJSON(input)
        cleaned == TrimSpace(ReplaceAllNL(ex.data))
        dec == jsonUnmarshal(cleaned)
    IN IF ~ex.found THEN [ok |-> FALSE, err |-> "no JSON code block found", resp |-> ZeroReAct]
       ELSE IF ~dec.ok THEN [ok |-> FALSE, err |-> "parsing JSON", resp |-> ZeroReAct]
       ELSE [ok |-> TRUE, err |-> "", resp |-> dec.resp]

(***************************************************************************)
(* The parts and function calls of a parsed response.                      *)
(***************************************************************************)
ShimPart(text, action) == [text |-> text, action |-> action]

\* ShimCandidate.Parts
Parts(c) ==
    (IF c.Thought # "" THEN <<ShimPart(c.Thought, NoAction)>> ELSE <<>>)
    \o (IF c.Answer # "" THEN <<ShimPart(c.Answer, NoAction)>> ELSE <<>>)
    \o (IF c.Action.present THEN <<ShimPart("", c.Action)>> ELSE <<>>)

\* ShimPart.AsText
AsText(p) == [text |-> p.text, ok |-> p.text # ""]

\* toMap of an Action: the JSON object of the struct, read back as a map
toMap(a) ==
    [name |-> Str(a.Name), reason |-> Str(a.Reason), command |-> Str(a.Command),
     modifies_resource |-> Str(a.ModifiesResource)]

FunctionCall(id, name, args) == [ID |-> id, Name |-> name, Arguments |-> args]

AsFunctionCallsKeepsName(p) ==
    IF p.action.present
    THEN [calls |-> <<FunctionCall("", p.action.Name, toMap(p.action))>>, ok |-> TRUE]
    ELSE [calls |-> <<>>, ok |-> FALSE]

\* ShimPart.AsFunctionCalls
AsFunctionCalls(p) ==
    IF p.action.present
    THEN [calls |-> <<FunctionCall("", p.action.Name, MapDelete(toMap(p.action), "name"))>>,
          ok |-> TRUE]
    ELSE [calls |-> <<>>, ok |-> FALSE]

\* the function calls RunOneRound accumulates from the parts of one candidate
RECURSIVE CallsOfParts(_)
CallsOfParts(ps) ==
    IF ps = <<>> THEN <<>>
    ELSE LET fc == AsFunctionCalls(Head(ps))
         IN (IF fc.ok /\ Len(fc.calls) > 0 THEN fc.calls ELSE <<>>) \o CallsOfParts(Tail(ps))

(***************************************************************************)
(* What the model and the user can send.                                   *)
(***************************************************************************)
Block(body) == jsonBlockMarker \o <<NL>> \o body \o <<NL>> \o fence

\* the texts a model streams in one shim turn
ShimTexts ==
    { <<>>,                                                  \* nothing at all
      <<"x", SP, "x">>,                                      \* prose, no block
      jsonBlockMarker,                                       \* opening marker alone
      jsonBlockMarker \o <<NL, "{", MThought, MActionNo, "}", NL>>,   \* never closed
      Block(<<"{", MThought, MActionNo, "}">>),
      <<"x">> \o Block(<<"{", MThought, SP, MActionYes, "}">>) \o <<"x">>,
      Block(<<"{", MThought, MAnswer, "}">>),
      Block(<<"{", MThought>>),                              \* malformed JSON
      Block(<<"{", MActionNo, "}">>) \o <<SP>> \o Block(<<"{", MActionYes, "}">>) }

\* the calls of one native part: name, arguments (the ID is given on arrival)
NativeCalls ==
    { [Name |-> "kubectl", Arguments |-> [command |-> Str("c"), modifies_resource |-> Str("no")]],
      [Name |-> "kubectl", Arguments |-> [command |-> Str("c"), modifies_resource |-> Str("yes")]],
      [Name |-> "bash", Arguments |-> [command |-> Str("c")]],
      [Name |-> "bash", Arguments |-> [command |-> Str("c"), modifies_resource |-> BoolVal("true")]] }

Query == [kind |-> "query", id |-> "", name |-> ""]

\* sequences over S of length at most n
RECURSIVE SeqsUpTo(_, _)
SeqsUpTo(S, n) ==
    IF n <= 0 THEN {<<>>}
    ELSE LET shorter == SeqsUpTo(S, n - 1)
         IN shorter \cup {Append(q, x) : q \in {r \in shorter : Len(r) = n - 1}, x \in S}

(***************************************************************************)
(* Values RunOneRound returns.                                             *)
(***************************************************************************)
Running == "running"
ErrNil == "nil"
ErrSend == "SendStreaming error"
ErrStream == "reading streaming LLM response"
ErrNoCandidates == "no candidates in LLM response"
ErrShimNoCandidates == "reading streaming LLM response: no candidates in LLM response"
ErrShimNoText == "reading streaming LLM response: no text part found in candidate"
ErrShimParse == "reading streaming LLM response: parsing ReAct response"
ErrBuild == "building tool call"
ErrInput == "reading input"
ErrChoice == "invalid confirmation choice"
ErrExec == "executing action"
ErrResult == "converting tool result"
ErrMaxIter == "max iterations reached"

Return(r) ==
    /\ pc' = "idle"
    /\ result' = r

(***************************************************************************)
(* Initial state: a Conversation after Init, no round started.             *)
(***************************************************************************)
(***************************************************************************)
(* mcp.Client: one transport handle, used by callers that hold no lock.    *)
(***************************************************************************)
MaxTransports == 3

\* the goroutines that call the methods of one Client
Callers == {"g1", "g2"}

\* c.client == nil
NilClient == 0

\* what a caller's last call returned; err is "pending" while it runs, ops
\* counts the operations it made (resolution, creation, handshake, listing, ping)
Returned(call, err, ops) == [call |-> call, err |-> err, ops |-> ops]

\* a request Connect sent to the server, and whether it was answered without error
Exchange(op, ok) == [op |-> op, ok |-> ok]

\* the parent of initCtx, verifyCtx, pingCtx and retryCtx: the caller's ctx
\* (client.go), or context.Background() in the earlier Connect
Parents == {"ctx", "background"}

\* no CallTool reached the server
NoResult == [answer |-> [err |-> "none", Content |-> <<>>, IsError |-> FALSE], text |-> ""]

NewClient ==
    /\ reply = [g \in Callers |-> NoResult]
    /\ client = NilClient
    /\ transports = <<>>
    /\ gpc = [g \in Callers |-> "idle"]
    /\ ret = [g \in Callers |-> Returned("none", "nil", 0)]
    /\ overlapped = FALSE
    /\ wire = [g \in Callers |-> <<>>]
    /\ ctxDone = [g \in Callers |-> FALSE]

ClientIdle ==
    /\ NewClient
    /\ parent = "ctx"

(***************************************************************************)
(* RetryConfig and the state of RetryOperation.                            *)
(***************************************************************************)
MaxRetriesBound == 4

\* delays are in seconds
DefaultRetryConfig == [MaxRetries |-> 3, BaseDelay |-> 1, MaxDelay |-> 10, Multiplier |-> 2]

\* a returned error: its message and the error it wraps ("nil" is no error)
Ret(msg, wraps) == [msg |-> msg, wraps |-> wraps]

RetryIdle ==
    /\ rpc = "idle"
    /\ retryConfig = DefaultRetryConfig
    /\ attempt = 0
    /\ lastErr = "nil"
    /\ cancelled = FALSE
    /\ cancelledAt = "never"
    /\ rret = Ret("none", "nil")
    /\ trace = <<>>

(***************************************************************************)
(* mcp.Manager: the configured servers and the map of live clients.        *)
(***************************************************************************)
MaxClients == 4

ServerNames == {"s1", "s2", "s3"}

\* make(map[string]...)
EmptyMap == [x \in {} |-> 0]

\* what a Manager operation returned: err is "nil" or the aggregate error
MRet(op, err, found) == [op |-> op, err |-> err, tools |-> found]

\* NewManager(config) with config.Servers = names
NewManager(names) ==
    /\ servers = names
    /\ clients = EmptyMap
    /\ objs = EmptyMap
    /\ mpc = "idle"
    /\ idx = 0
    /\ todo = {}
    /\ errs = <<>>
    /\ tools = EmptyMap
    /\ mret = MRet("none", "nil", EmptyMap)
    /\ made = 0
    /\ before = EmptyMap
    /\ connectLog = <<>>
    /\ closeLog = {}
    /\ failedListing = {}

ManagerIdle == NewManager(<<>>)

(***************************************************************************)
(* Threads calling the Manager's methods, and its sync.RWMutex.            *)
(***************************************************************************)
NumThreads == 3
Threads == 1..NumThreads
NoThread == 0

\* a thread's call: the method, its position, and the method's locals
Frame(op, at, i, left, seen) ==
    [op |-> op, pc |-> at, i |-> i, left |-> left, seen |-> seen]

NoCall == Frame("none", "idle", 0, {}, EmptyMap)

\* the zero value of sync.RWMutex
Unlocked == [w |-> NoThread, r |-> {}]

LockIdle ==
    /\ mu = Unlocked
    /\ frames = [t \in Threads |-> NoCall]

(***************************************************************************)
(* The server registry: Config in memory and its file on disk.             *)
(***************************************************************************)
MaxServers == 2

ServerConfig(name, command, args, env) ==
    [Name |-> name, Command |-> command, Args |-> args, Env |-> env]

\* the server descriptions the callers and the documents use
ServerConfigs ==
    { ServerConfig("a", "npx", <<"-y">>, [k \in {"TOKEN"} |-> "secret"]),
      ServerConfig("b", "uvx", <<>>, EmptyMap),
      ServerConfig("", "uvx", <<>>, EmptyMap),
      ServerConfig("a", "", <<>>, EmptyMap) }

\* the content of a file: the "servers" array and the "mcpServers" object of
\* the document, or bytes that are not a complete document
Data(list, keyed, complete) == [servers |-> list, mcpServers |-> keyed, complete |-> complete]

Truncated == Data(<<>>, EmptyMap, FALSE)

File(data, perm) == [exists |-> TRUE, data |-> data, perm |-> perm]

NoFile == [exists |-> FALSE, data |-> Truncated, perm |-> "none"]

\* a *Config: nil, or its Servers
Config(list) == [nil |-> FALSE, Servers |-> list]

NilConfig == [nil |-> TRUE, Servers |-> <<>>]

CRet(op, err, wraps) == [op |-> op, err |-> err, wraps |-> wraps]

NotWritten == [saved |-> FALSE, servers |-> <<>>]

NothingToSave == [list |-> <<>>, data |-> Truncated]

\* no registry operation has been made yet
ConfigFresh ==
    /\ cfg = NilConfig
    /\ tmp = NoFile
    /\ cpc = "idle"
    /\ cont = "none"
    /\ cret = CRet("none", "nil", "nil")
    /\ saving = NothingToSave
    /\ prev = NoFile
    /\ steps = <<>>
    /\ written = NotWritten
    /\ source = "none"

ConfigIdle == target = NoFile /\ ConfigFresh

(***************************************************************************)
(* The arguments of an MCP tool call.                                      *)
(***************************************************************************)
Entry(key, value) == [key |-> key, value |-> value]

NoEntry == Entry(<<>>, NilVal)

ArgsIdle ==
    /\ mcpArgs = NoEntry
    /\ convertedArgs = NoEntry
    /\ vpc = "args"

\* the temporary directory of a Conversation: "" stands for none
NoDir == 0

\* what Init or Close returned; for Close, what became of the removal
Left(call, err, removal) == [call |-> call, err |-> err, removal |-> removal]

WorkDirIdle ==
    /\ disk = {}
    /\ workDir = NoDir
    /\ RemoveWorkDir = FALSE
    /\ newDir = NoDir
    /\ dirsMade = 0
    /\ wpc = "idle"
    /\ wret = Left("none", "nil", "none")

Init ==
    /\ pc = "idle"
    /\ SkipPermissions \in BOOLEAN
    /\ EnableToolUseShim \in BOOLEAN
    /\ MaxIterations \in 0..MaxIter
    /\ currentIteration = 0
    /\ currChatContent = <<>>
    /\ functionCalls = <<>>
    /\ callIdx = 1
    /\ buffer = <<>>
    /\ turnText = <<>>
    /\ rest = <<>>
    /\ result = "none"
    /\ sent = 0
    /\ log = <<>>
    /\ errorBlocks = 0
    /\ choseTwo = "no"
    /\ ClientIdle
    /\ RetryIdle
    /\ ManagerIdle
    /\ LockIdle
    /\ ConfigIdle
    /\ WorkDirIdle
    /\ ArgsIdle

AgentIdle ==
    /\ pc = "idle"
    /\ SkipPermissions = FALSE
    /\ EnableToolUseShim = FALSE
    /\ MaxIterations = 0
    /\ currentIteration = 0
    /\ currChatContent = <<>>
    /\ functionCalls = <<>>
    /\ callIdx = 1
    /\ buffer = <<>>
    /\ turnText = <<>>
    /\ rest = <<>>
    /\ result = "none"
    /\ sent = 0
    /\ log = <<>>
    /\ errorBlocks = 0
    /\ choseTwo = "no"

conf == <<SkipPermissions, EnableToolUseShim, MaxIterations>>
shim == <<buffer, turnText, rest>>

(***************************************************************************)
(* RunOneRound: entry and loop head.                                       *)
(***************************************************************************)
RunOneRound ==
    /\ pc = "idle"
    /\ currChatContent' = <<Query>>
    /\ currentIteration' = 0
    /\ pc' = "loop"
    /\ result' = Running
    /\ sent' = 0
    /\ log' = <<>>
    /\ errorBlocks' = 0
    /\ functionCalls' = <<>>
    /\ callIdx' = 1
    /\ buffer' = <<>>
    /\ turnText' = <<>>
    /\ rest' = <<>>
    /\ choseTwo' = (IF choseTwo = "no" THEN "no" ELSE "earlier")
    /\ UNCHANGED conf
    /\ UNCHANGED outsideAgent

LoopConditionOffByOne(iteration, maxIterations) == iteration <= maxIterations

\* the condition of the for loop
LoopCondition(iteration, maxIterations) == iteration < maxIterations

SendStreaming ==
    /\ pc = "loop"
    /\ LoopCondition(currentIteration, MaxIterations)
    /\ sent' = sent + 1
    /\ currChatContent' = <<>>
    /\ functionCalls' = <<>>
    /\ callIdx' = 1
    /\ log' = <<>>
    /\ buffer' = <<>>
    /\ IF EnableToolUseShim
       THEN \E t \in ShimTexts : turnText' = t /\ rest' = t
       ELSE turnText' = <<>> /\ rest' = <<>>
    /\ pc' = "streaming"
    /\ UNCHANGED <<conf, currentIteration, result, errorBlocks, choseTwo>>
    /\ UNCHANGED outsideAgent

SendStreamingFails ==
    /\ pc = "loop"
    /\ LoopCondition(currentIteration, MaxIterations)
    /\ sent' = sent + 1
    /\ Return(ErrSend)
    /\ UNCHANGED <<conf, shim, currentIteration, currChatContent, functionCalls, callIdx,
                   log, errorBlocks, choseTwo>>
    /\ UNCHANGED outsideAgent

MaxIterationsReached ==
    /\ pc = "loop"
    /\ ~LoopCondition(currentIteration, MaxIterations)
    /\ errorBlocks' = errorBlocks + 1
    /\ Return(ErrMaxIter)
    /\ UNCHANGED <<conf, shim, currentIteration, currChatContent, functionCalls, callIdx,
                   sent, log, choseTwo>>
    /\ UNCHANGED outsideAgent

(***************************************************************************)
(* Native path: RunOneRound reads the model's stream itself.               *)
(***************************************************************************)
streamFrame == <<conf, shim, currentIteration, currChatContent, callIdx, sent,
                 log, errorBlocks, choseTwo>>

\* the calls of one part, as RunOneRound appends them
WithIDs(calls, base) ==
    [i \in 1..Len(calls) |->
        FunctionCall(ToString(base + i), calls[i].Name, calls[i].Arguments)]

\* a loop that runs the calls of a part as soon as the part arrives
StreamResponseRunsCalls ==
    /\ pc = "streaming"
    /\ ~EnableToolUseShim
    /\ \E calls \in SeqsUpTo(NativeCalls, MaxCalls - Len(functionCalls)) :
          /\ functionCalls' = functionCalls \o WithIDs(calls, Len(functionCalls))
          /\ log' = log \o [i \in 1..Len(calls) |-> [ev |-> "exec", i |-> Len(functionCalls) + i]]
    /\ UNCHANGED <<pc, result, conf, shim, currentIteration, currChatContent, callIdx, sent,
                   errorBlocks, choseTwo>>
    /\ UNCHANGED outsideAgent

\* a response with one candidate: text parts and a part of function calls
StreamResponse ==
    /\ pc = "streaming"
    /\ ~EnableToolUseShim
    /\ \E calls \in SeqsUpTo(NativeCalls, MaxCalls - Len(functionCalls)) :
          functionCalls' = functionCalls \o WithIDs(calls, Len(functionCalls))
    /\ UNCHANGED <<pc, result, streamFrame>>
    /\ UNCHANGED outsideAgent

\* the stream yields an error
StreamError ==
    /\ pc = "streaming"
    /\ ~EnableToolUseShim
    /\ Return(ErrStream)
    /\ UNCHANGED <<functionCalls, streamFrame>>
    /\ UNCHANGED outsideAgent

\* a response without candidates
StreamNoCandidates ==
    /\ pc = "streaming"
    /\ ~EnableToolUseShim
    /\ Return(ErrNoCandidates)
    /\ UNCHANGED <<functionCalls, streamFrame>>
    /\ UNCHANGED outsideAgent

\* a nil response, or the iterator returns: the range loop is left
StreamEnd ==
    /\ pc = "streaming"
    /\ ~EnableToolUseShim
    /\ pc' = "dispatch"
    /\ UNCHANGED <<functionCalls, result, streamFrame>>
    /\ UNCHANGED outsideAgent

(***************************************************************************)
(* Shim path: candidateToShimCandidate reads the model's stream and yields *)
(* one element to RunOneRound.                                             *)
(***************************************************************************)
shimFrame == <<conf, currentIteration, currChatContent, callIdx, sent,
               log, errorBlocks, choseTwo>>

ShimYieldNullWithoutBlock(b) ==
    IF ~extractJSON(b).found
    THEN /\ pc' = "dispatch"
         /\ buffer' = b
         /\ UNCHANGED <<functionCalls, result>>
    ELSE LET parsed == parseReActResponse(b)
         IN IF ~parsed.ok
            THEN /\ Return(ErrShimParse)
                 /\ buffer' = b
                 /\ UNCHANGED functionCalls
            ELSE /\ buffer' = <<>>
                 /\ functionCalls' = functionCalls \o CallsOfParts(Parts(parsed.resp))
                 /\ pc' = "dispatch"
                 /\ UNCHANGED result

\* what the shim yields once it stops reading, and what RunOneRound makes of it
ShimYield(b) ==
    IF b = <<>>
    THEN \* yield(nil, nil): RunOneRound leaves the range loop
         /\ pc' = "dispatch"
         /\ buffer' = b
         /\ UNCHANGED <<functionCalls, result>>
    ELSE LET parsed == parseReActResponse(b)
         IN IF ~parsed.ok
            THEN /\ Return(ErrShimParse)
                 /\ buffer' = b
                 /\ UNCHANGED functionCalls
            ELSE /\ buffer' = <<>>
                 /\ functionCalls' = functionCalls \o CallsOfParts(Parts(parsed.resp))
                 /\ pc' = "dispatch"
                 /\ UNCHANGED result

\* a shim that reads the model's stream to its end
ShimFragmentReadsOn ==
    /\ pc = "streaming"
    /\ EnableToolUseShim
    /\ rest # <<>>
    /\ \E k \in 1..Len(rest) :
          /\ rest' = SubSeq(rest, k + 1, Len(rest))
          /\ buffer' = buffer \o SubSeq(rest, 1, k)
    /\ UNCHANGED <<pc, functionCalls, result, turnText, shimFrame>>
    /\ UNCHANGED outsideAgent

\* a response whose parts are text: the next fragment of the model's text
ShimFragment ==
    /\ pc = "streaming"
    /\ EnableToolUseShim
    /\ rest # <<>>
    /\ \E k \in 1..Len(rest) :
          LET b == buffer \o SubSeq(rest, 1, k)
          IN /\ rest' = SubSeq(rest, k + 1, Len(rest))
             /\ IF extractJSON(b).found
                THEN ShimYield(b)
                ELSE /\ buffer' = b
                     /\ UNCHANGED <<pc, functionCalls, result>>
    /\ UNCHANGED <<turnText, shimFrame>>
    /\ UNCHANGED outsideAgent

\* the model's stream is over: the iterator returns
ShimExhausted ==
    /\ pc = "streaming"
    /\ EnableToolUseShim
    /\ rest = <<>>
    /\ ShimYield(buffer)
    /\ UNCHANGED <<turnText, rest, shimFrame>>
    /\ UNCHANGED outsideAgent

\* the model's stream yields an error
ShimStreamError ==
    /\ pc = "streaming"
    /\ EnableToolUseShim
    /\ Return(ErrStream)
    /\ UNCHANGED <<shim, functionCalls, shimFrame>>
    /\ UNCHANGED outsideAgent

\* a response without candidates
ShimNoCandidates ==
    /\ pc = "streaming"
    /\ EnableToolUseShim
    /\ Return(ErrShimNoCandidates)
    /\ UNCHANGED <<shim, functionCalls, shimFrame>>
    /\ UNCHANGED outsideAgent

\* a response with a part that is not text
ShimNonTextPart ==
    /\ pc = "streaming"
    /\ EnableToolUseShim
    /\ Return(ErrShimNoText)
    /\ UNCHANGED <<shim, functionCalls, shimFrame>>
    /\ UNCHANGED outsideAgent

\* a nil response: response.Candidates() on a nil interface panics
ShimNilResponse ==
    /\ pc = "streaming"
    /\ EnableToolUseShim
    /\ pc' = "panic"
    /\ result' = "panic"
    /\ UNCHANGED <<shim, functionCalls, shimFrame>>
    /\ UNCHANGED outsideAgent

(***************************************************************************)
(* Dispatch of the function calls of the turn.                             *)
(***************************************************************************)
Event(kind, i) == [ev |-> kind, i |-> i]

call == functionCalls[callIdx]

NeedsConfirmationOnlyYes(skip, arguments) ==
    ~skip /\ MapGet(arguments, "modifies_resource") = Str("yes")

\* the condition under which the confirmation prompt is shown
NeedsConfirmation(skip, arguments) ==
    ~skip /\ MapGet(arguments, "modifies_resource") # Str("no")

dispatchFrame == <<EnableToolUseShim, MaxIterations, shim, currentIteration, functionCalls,
                   sent>>

\* ParseToolInvocation fails
ResolveFails ==
    /\ pc = "dispatch"
    /\ callIdx <= Len(functionCalls)
    /\ Return(ErrBuild)
    /\ UNCHANGED <<dispatchFrame, SkipPermissions, currChatContent, callIdx, log,
                   errorBlocks, choseTwo>>
    /\ UNCHANGED outsideAgent

\* ParseToolInvocation succeeds: the request block is shown, then the prompt if needed
Resolve ==
    /\ pc = "dispatch"
    /\ callIdx <= Len(functionCalls)
    /\ IF NeedsConfirmation(SkipPermissions, call.Arguments)
       THEN /\ pc' = "confirm"
            /\ log' = Append(log, Event("prompt", callIdx))
       ELSE /\ pc' = "invoke"
            /\ UNCHANGED log
    /\ UNCHANGED <<dispatchFrame, SkipPermissions, currChatContent, callIdx, result,
                   errorBlocks, choseTwo>>
    /\ UNCHANGED outsideAgent

confirmFrame == <<dispatchFrame, errorBlocks>>

ChoiceEOFAsError ==
    /\ pc = "confirm"
    /\ log' = Append(log, Event("eof", callIdx))
    /\ Return(ErrInput)
    /\ UNCHANGED <<confirmFrame, SkipPermissions, currChatContent, callIdx, choseTwo>>
    /\ UNCHANGED outsideAgent

\* Wait returns io.EOF
ChoiceEOF ==
    /\ pc = "confirm"
    /\ log' = Append(log, Event("eof", callIdx))
    /\ Return(ErrNil)
    /\ UNCHANGED <<confirmFrame, SkipPermissions, currChatContent, callIdx, choseTwo>>
    /\ UNCHANGED outsideAgent

\* Wait returns another error
ChoiceError ==
    /\ pc = "confirm"
    /\ log' = Append(log, Event("inputerr", callIdx))
    /\ Return(ErrInput)
    /\ UNCHANGED <<confirmFrame, SkipPermissions, currChatContent, callIdx, choseTwo>>
    /\ UNCHANGED outsideAgent

ChooseYesDefers ==
    /\ pc = "confirm"
    /\ callIdx' = callIdx + 1
    /\ pc' = "dispatch"
    /\ UNCHANGED <<confirmFrame, SkipPermissions, currChatContent, log, result, choseTwo>>
    /\ UNCHANGED outsideAgent

\* case "1"
ChooseYes ==
    /\ pc = "confirm"
    /\ pc' = "invoke"
    /\ UNCHANGED <<confirmFrame, SkipPermissions, currChatContent, callIdx, log, result,
                   choseTwo>>
    /\ UNCHANGED outsideAgent

ChooseYesDontAskForgets ==
    /\ pc = "confirm"
    /\ choseTwo' = "this"
    /\ pc' = "invoke"
    /\ UNCHANGED <<confirmFrame, SkipPermissions, currChatContent, callIdx, log, result>>
    /\ UNCHANGED outsideAgent

\* case "2"
ChooseYesDontAsk ==
    /\ pc = "confirm"
    /\ SkipPermissions' = TRUE
    /\ choseTwo' = "this"
    /\ pc' = "invoke"
    /\ UNCHANGED <<confirmFrame, currChatContent, callIdx, log, result>>
    /\ UNCHANGED outsideAgent

Declined(name) == [kind |-> "declined", id |-> "", name |-> name]

ChooseNoFallsThrough ==
    /\ pc = "confirm"
    /\ currChatContent' = Append(currChatContent, Declined(call.Name))
    /\ log' = Append(log, Event("declined", callIdx))
    /\ pc' = "invoke"
    /\ UNCHANGED <<confirmFrame, SkipPermissions, callIdx, result, choseTwo>>
    /\ UNCHANGED outsideAgent

\* case "3"
ChooseNo ==
    /\ pc = "confirm"
    /\ currChatContent' = Append(currChatContent, Declined(call.Name))
    /\ log' = Append(log, Event("declined", callIdx))
    /\ callIdx' = callIdx + 1
    /\ pc' = "dispatch"
    /\ UNCHANGED <<confirmFrame, SkipPermissions, result, choseTwo>>
    /\ UNCHANGED outsideAgent

\* default
ChooseInvalid ==
    /\ pc = "confirm"
    /\ errorBlocks' = errorBlocks + 1
    /\ Return(ErrChoice)
    /\ UNCHANGED <<dispatchFrame, SkipPermissions, currChatContent, callIdx, log, choseTwo>>
    /\ UNCHANGED outsideAgent

invokeFrame == <<dispatchFrame, SkipPermissions, errorBlocks, choseTwo>>

InvokeToolFailsSwallowed ==
    /\ pc = "invoke"
    /\ log' = Append(log, Event("execfail", callIdx))
    /\ callIdx' = callIdx + 1
    /\ pc' = "dispatch"
    /\ UNCHANGED <<invokeFrame, currChatContent, result>>
    /\ UNCHANGED outsideAgent

\* InvokeTool returns an error
InvokeToolFails ==
    /\ pc = "invoke"
    /\ log' = Append(log, Event("execfail", callIdx))
    /\ Return(ErrExec)
    /\ UNCHANGED <<invokeFrame, currChatContent, callIdx>>
    /\ UNCHANGED outsideAgent

Observation(name) == [kind |-> "observation", id |-> "", name |-> name]
FunctionCallResult(id, name) == [kind |-> "result", id |-> id, name |-> name]

ToolOutputWithoutID(useShim, c) ==
    IF useShim THEN Observation(c.Name) ELSE FunctionCallResult("", c.Name)

\* what a successful call adds to the pending content
ToolOutput(useShim, c) ==
    IF useShim THEN Observation(c.Name) ELSE FunctionCallResult(c.ID, c.Name)

\* InvokeTool returns an output
InvokeToolOk ==
    /\ pc = "invoke"
    /\ log' = Append(log, Event("exec", callIdx))
    /\ currChatContent' = Append(currChatContent, ToolOutput(EnableToolUseShim, call))
    /\ callIdx' = callIdx + 1
    /\ pc' = "dispatch"
    /\ UNCHANGED <<invokeFrame, result>>
    /\ UNCHANGED outsideAgent

\* InvokeTool returns an output that ToolResultToMap rejects (native path)
ToolResultFails ==
    /\ pc = "invoke"
    /\ ~EnableToolUseShim
    /\ log' = Append(log, Event("exec", callIdx))
    /\ Return(ErrResult)
    /\ UNCHANGED <<invokeFrame, currChatContent, callIdx>>
    /\ UNCHANGED outsideAgent

endFrame == <<conf, shim, currChatContent, functionCalls, callIdx, sent,
              log, errorBlocks, choseTwo>>

TurnDoneCounts ==
    /\ pc = "dispatch"
    /\ callIdx > Len(functionCalls)
    /\ Len(functionCalls) = 0
    /\ currentIteration' = currentIteration + 1
    /\ Return(ErrNil)
    /\ UNCHANGED endFrame
    /\ UNCHANGED outsideAgent

\* after the range loop: no function call was made, the round is done
TurnDone ==
    /\ pc = "dispatch"
    /\ callIdx > Len(functionCalls)
    /\ Len(functionCalls) = 0
    /\ Return(ErrNil)
    /\ UNCHANGED <<endFrame, currentIteration>>
    /\ UNCHANGED outsideAgent

\* after the range loop: currentIteration++
NextIteration ==
    /\ pc = "dispatch"
    /\ callIdx > Len(functionCalls)
    /\ Len(functionCalls) # 0
    /\ currentIteration' = currentIteration + 1
    /\ pc' = "loop"
    /\ UNCHANGED <<endFrame, result>>
    /\ UNCHANGED outsideAgent

Next ==
    \/ RunOneRound
    \/ SendStreaming
    \/ SendStreamingFails
    \/ MaxIterationsReached
    \/ StreamResponse
    \/ StreamError
    \/ StreamNoCandidates
    \/ StreamEnd
    \/ ShimFragment
    \/ ShimExhausted
    \/ ShimStreamError
    \/ ShimNoCandidates
    \/ ShimNonTextPart
    \/ ShimNilResponse
    \/ ResolveFails
    \/ Resolve
    \/ ChoiceEOF
    \/ ChoiceError
    \/ ChooseYes
    \/ ChooseYesDontAsk
    \/ ChooseNo
    \/ ChooseInvalid
    \/ InvokeToolFails
    \/ InvokeToolOk
    \/ ToolResultFails
    \/ TurnDone
    \/ NextIteration

Spec == Init /\ [][Next]_vars

\* the statements of RunOneRound that wait for nobody
LoopStep ==
    \/ SendStreaming
    \/ SendStreamingFails
    \/ MaxIterationsReached
    \/ ResolveFails
    \/ Resolve
    \/ TurnDone
    \/ NextIteration

\* the stream of the turn yields its last element: an error, a response the
\* loop rejects, nil, or the iterator returns
StreamEnds ==
    \/ StreamError
    \/ StreamNoCandidates
    \/ StreamEnd
    \/ ShimExhausted
    \/ ShimStreamError
    \/ ShimNoCandidates
    \/ ShimNonTextPart
    \/ ShimNilResponse

\* optionsBlock.Observable().Wait() returns
PromptAnswered ==
    \/ ChoiceEOF
    \/ ChoiceError
    \/ ChooseYes
    \/ ChooseYesDontAsk
    \/ ChooseNo
    \/ ChooseInvalid

\* toolCall.InvokeTool returns
ToolReturns ==
    \/ InvokeToolFails
    \/ InvokeToolOk
    \/ ToolResultFails

\* every stream is finite, every tool invocation returns, every prompt is
\* answered or hits end of input, and RunOneRound is scheduled
SpecLive ==
    /\ Spec
    /\ WF_vars(LoopStep)
    /\ WF_vars(StreamEnds)
    /\ WF_vars(PromptAnswered)
    /\ WF_vars(ToolReturns)

(***************************************************************************)
(* Properties.                                                             *)
(***************************************************************************)
InTurn == pc \in {"streaming", "dispatch", "confirm", "invoke"}

\* C1: the loop sends at most MaxIterations requests: a pass that completes
\* adds exactly one to the iteration counter, the counter and the number of
\* requests never exceed MaxIterations, and after MaxIterations completed
\* passes the round adds an error block and returns "max iterations reached"
\* without another request.
C1_Counts ==
    /\ sent <= MaxIterations
    /\ currentIteration <= MaxIterations
    /\ (pc = "loop" => sent = currentIteration)
    /\ (InTurn => sent = currentIteration + 1)
    /\ (pc = "idle" /\ result = ErrMaxIter =>
            /\ sent = MaxIterations
            /\ currentIteration = MaxIterations
            /\ errorBlocks = 1)

C1_Step ==
    /\ (currentIteration' # currentIteration =>
            \/ (pc = "idle" /\ currentIteration' = 0)
            \/ (/\ pc = "dispatch" /\ callIdx > Len(functionCalls)
                /\ currentIteration' = currentIteration + 1))
    /\ (pc = "loop" /\ currentIteration >= MaxIterations =>
            /\ pc' = "idle" /\ result' = ErrMaxIter
            /\ sent' = sent /\ errorBlocks' = errorBlocks + 1)
    /\ (pc = "dispatch" /\ callIdx > Len(functionCalls) /\ Len(functionCalls) > 0 =>
            pc' = "loop" /\ currentIteration' = currentIteration + 1)

C1_IterationBound == [](C1_Counts) /\ [][C1_Step]_vars

C1_Witness ==
    /\ pc = "idle" /\ result = ErrMaxIter
    /\ MaxIterations = 3 /\ sent = 3
    /\ Len(functionCalls) >= 1
    /\ \A k \in 1..Len(log) : log[k].ev \in {"prompt", "exec"}

\* C2: when a call has been resolved, the confirmation prompt is shown if and
\* only if SkipPermissions is false and the modifies_resource argument is not
\* the string "no" (absent or of another type counts as not "no"); otherwise
\* the tool is invoked at once.  A prompt is shown in no other way.
C2_Condition ==
    /\ ~SkipPermissions
    /\ ~(/\ "modifies_resource" \in DOMAIN call.Arguments
         /\ call.Arguments["modifies_resource"] = [t |-> "string", v |-> "no"])

C2_Step ==
    /\ (pc = "dispatch" /\ pc' \in {"confirm", "invoke"} =>
            /\ (pc' = "confirm") <=> C2_Condition
            /\ (pc' = "confirm") <=> (log' = Append(log, Event("prompt", callIdx)))
            /\ callIdx' = callIdx)
    /\ (pc # "confirm" /\ pc' = "confirm" => pc = "dispatch")
    /\ (pc # "invoke" /\ pc' = "invoke" => pc \in {"dispatch", "confirm"})

C2_ConfirmationGating == [][C2_Step]_vars

C2_Witness ==
    /\ pc = "confirm"
    /\ "modifies_resource" \notin DOMAIN call.Arguments

\* C3: once the user has answered "2", SkipPermissions is true and no prompt
\* is shown again, in this round or a later one; the answer leads to the
\* invocation of the call it was given for; nothing resets SkipPermissions.
C3_State == choseTwo # "no" => SkipPermissions /\ pc # "confirm"

C3_Step ==
    /\ (SkipPermissions => SkipPermissions')
    /\ (choseTwo' = "this" /\ choseTwo # "this" =>
            pc = "confirm" /\ pc' = "invoke" /\ callIdx' = callIdx /\ SkipPermissions')

C3_DontAskAgain == [](C3_State) /\ [][C3_Step]_vars

C3_Witness ==
    /\ choseTwo = "earlier"
    /\ pc = "invoke"
    /\ MapGet(call.Arguments, "modifies_resource") = Str("yes")
    /\ log = <<>>

HasEvent(kind, i) == \E k \in 1..Len(log) : log[k] = Event(kind, i)
Executed(i) == HasEvent("exec", i) \/ HasEvent("execfail", i)
Range(q) == {q[k] : k \in 1..Len(q)}

\* C4: a call the user declines (answer "3") is never invoked; the
\* observation "User didn't approve running <name>" is appended to the pending
\* content; the loop goes on with the next call of the turn; and when the
\* calls are done the round is not DONE: the counter is incremented and the
\* loop head is reached with the observation pending, where the next request
\* is sent if the iteration budget allows.
C4_State ==
    \A i \in 1..Len(functionCalls) :
        HasEvent("declined", i) =>
            /\ ~Executed(i)
            /\ [kind |-> "declined", id |-> "", name |-> functionCalls[i].Name]
                   \in Range(currChatContent)
            /\ (pc = "dispatch" /\ callIdx > Len(functionCalls) =>
                    ~ENABLED TurnDone /\ ENABLED NextIteration)
            /\ (pc = "loop" /\ currentIteration < MaxIterations => ENABLED SendStreaming)
            /\ (pc = "idle" => result # ErrNil \/ HasEvent("eof", callIdx))

C4_Step ==
    (Len(log') = Len(log) + 1 /\ log'[Len(log')].ev = "declined") =>
        /\ pc = "confirm"
        /\ log'[Len(log')].i = callIdx
        /\ pc' = "dispatch"
        /\ callIdx' = callIdx + 1
        /\ currentIteration' = currentIteration
        /\ Len(currChatContent') = Len(currChatContent) + 1
        /\ currChatContent'[Len(currChatContent')].name = functionCalls[callIdx].Name

C4_Decline == [](C4_State) /\ [][C4_Step]_vars

C4_Witness ==
    /\ pc = "loop"
    /\ currentIteration < MaxIterations
    /\ HasEvent("declined", 1)
    /\ HasEvent("exec", 2)

\* C5: a failing tool invocation ends the round at once with the error
\* "executing action": it is the last thing that happened in the turn, no later
\* call of the turn is prompted for or run, nothing is added to the pending
\* content for it, and no request follows.
C5_ToolFailure ==
    \A k \in 1..Len(log) :
        log[k].ev = "execfail" =>
            /\ pc = "idle"
            /\ result = ErrExec
            /\ k = Len(log)
            /\ log[k].i = callIdx
            /\ \A j \in 1..Len(log) : log[j].i <= callIdx
            /\ sent = currentIteration + 1
            /\ Len(currChatContent) = callIdx - 1

C5_Witness ==
    /\ pc = "idle"
    /\ result = ErrExec
    /\ callIdx = 1
    /\ Len(functionCalls) = 2

\* C6: a turn whose stream ended with no function call returns nil at once:
\* no tool has run, the iteration counter and the number of requests stay.
C6_Step ==
    (pc = "dispatch" /\ functionCalls = <<>>) =>
        /\ log = <<>>
        /\ pc' = "idle"
        /\ result' = ErrNil
        /\ currentIteration' = currentIteration
        /\ sent' = sent
        /\ log' = log

C6_EmptyTurnDone == [][C6_Step]_vars

C6_Witness ==
    /\ pc = "idle"
    /\ result = ErrNil
    /\ functionCalls = <<>>
    /\ ~EnableToolUseShim
    /\ currentIteration = 1
    /\ sent = 2

\* C7: the calls of a turn are handled one at a time in the order of
\* functionCalls: the events of the turn are ordered by call, a prompt is
\* followed by the answer or the run of the same call, and while call i is
\* prompted for or run every earlier call has been run or declined and no
\* later call has been touched.
C7_InOrder ==
    /\ \A k \in 1..Len(log) : log[k].i \in 1..Len(functionCalls)
    /\ \A k \in 1..(Len(log) - 1) :
          /\ log[k].i <= log[k + 1].i
          /\ (log[k].ev = "prompt" =>
                log[k + 1].i = log[k].i /\ log[k + 1].ev # "prompt")
          /\ (log[k].ev # "prompt" => log[k + 1].i > log[k].i)
    /\ (pc \in {"confirm", "invoke"} =>
          /\ callIdx \in 1..Len(functionCalls)
          /\ \A j \in 1..(callIdx - 1) : HasEvent("exec", j) \/ HasEvent("declined", j)
          /\ \A k \in 1..Len(log) : log[k].i <= callIdx
          /\ ~Executed(callIdx) /\ ~HasEvent("declined", callIdx))
    /\ (pc = "confirm" => log # <<>> /\ log[Len(log)] = Event("prompt", callIdx))

C7_Witness ==
    /\ pc = "confirm"
    /\ callIdx = 2
    /\ HasEvent("prompt", 1)
    /\ HasEvent("exec", 1)

\* C8: end of input at a confirmation prompt ends the round with nil: the
\* pending call and the later calls are not run and no request follows; any
\* other error of the read is returned as an error.
C8_EndOfInput ==
    \A k \in 1..Len(log) :
        /\ (log[k].ev = "eof" =>
                /\ pc = "idle"
                /\ result = ErrNil
                /\ k = Len(log)
                /\ log[k].i = callIdx
                /\ \A j \in callIdx..Len(functionCalls) : ~Executed(j)
                /\ sent = currentIteration + 1)
        /\ (log[k].ev = "inputerr" =>
                /\ pc = "idle"
                /\ result = ErrInput
                /\ k = Len(log)
                /\ \A j \in callIdx..Len(functionCalls) : ~Executed(j))

C8_Witness ==
    /\ HasEvent("eof", 1)
    /\ Len(functionCalls) = 2
    /\ result = ErrNil

\* number of places of s where sub occurs
Occurrences(s, sub) ==
    Cardinality({i \in 0..(Len(s) - Len(sub)) : SubSeq(s, i + 1, i + Len(sub)) = sub})

\* the text holds no complete fenced block: no opening marker, or no fence
\* other than the one of the opening marker
NoCompleteBlock(s) ==
    \/ Occurrences(s, jsonBlockMarker) = 0
    \/ Occurrences(s, fence) <= 1

C9_State ==
    (EnableToolUseShim /\ pc = "streaming") => NoCompleteBlock(buffer)

C9_Step ==
    /\ (EnableToolUseShim /\ pc = "streaming" /\ rest = <<>> /\ pc' \notin {"streaming", "panic"}
        /\ result' \notin {ErrStream, ErrShimNoCandidates, ErrShimNoText} =>
            IF turnText = <<>>
            THEN pc' = "dispatch" /\ functionCalls' = <<>> /\ result' = Running
            ELSE pc' = "idle" /\ result' = ErrShimParse)
    /\ (EnableToolUseShim /\ pc = "dispatch" /\ turnText = <<>> =>
            pc' = "idle" /\ result' = ErrNil)

TextFoo == jsonBlockMarker \o <<NL, "{", MThought, MActionNo, "}", NL>> \o fence
TextBar ==
    <<"x">> \o jsonBlockMarker \o <<NL, "{", MThought, SP, MActionYes, "}", NL>> \o fence
        \o <<"x">>
TextAnswer == jsonBlockMarker \o <<NL, "{", MThought, MAnswer, "}", NL>> \o fence

CallFoo ==
    [ID |-> "", Name |-> "foo",
     Arguments |-> [reason |-> [t |-> "string", v |-> "r"],
                    command |-> [t |-> "string", v |-> "c"],
                    modifies_resource |-> [t |-> "string", v |-> "no"]]]
CallBar ==
    [ID |-> "", Name |-> "bar",
     Arguments |-> [reason |-> [t |-> "string", v |-> "r2"],
                    command |-> [t |-> "string", v |-> "c2"],
                    modifies_resource |-> [t |-> "string", v |-> "yes"]]]

C10_ShimCall ==
    (EnableToolUseShim /\ turnText \in {TextFoo, TextBar, TextAnswer}) =>
        /\ result # ErrShimParse
        /\ (pc \in {"dispatch", "confirm", "invoke", "loop"} \/ (pc = "idle" /\ result # ErrStream
                /\ result # ErrShimNoCandidates /\ result # ErrShimNoText) =>
              /\ turnText = TextFoo => functionCalls = <<CallFoo>>
              /\ turnText = TextBar => functionCalls = <<CallBar>>
              /\ turnText = TextAnswer => functionCalls = <<>>
              /\ \A i \in 1..Len(functionCalls) :
                    DOMAIN functionCalls[i].Arguments
                        = {"reason", "command", "modifies_resource"})

C10_Witness ==
    /\ EnableToolUseShim
    /\ pc = "dispatch"
    /\ turnText = TextBar
    /\ rest = <<"x">>
    /\ functionCalls = <<CallBar>>

(***************************************************************************)
(* C11: prose around the block and more than one block.                    *)
(***************************************************************************)
TextTwo == Block(<<"{", MActionNo, "}">>) \o <<SP>> \o Block(<<"{", MActionYes, "}">>)

\* the text from the first opening marker to the closing marker that follows it
FirstWindow(s) ==
    LET first == Index(s, jsonBlockMarker)
        after == SubSeq(s, first + Len(jsonBlockMarker) + 1, Len(s))
        close == Index(after, fence)
    IN IF first = -1 \/ close = -1 THEN <<>>
       ELSE SubSeq(s, first + 1, first + Len(jsonBlockMarker) + close + Len(fence))

FirstWindowCalls(s) == CallsOfParts(Parts(parseReActResponse(FirstWindow(s)).resp))

\* the turn went past the shim: its calls are being dispatched or the round
\* ended in a later step
PastShim ==
    \/ pc \in {"dispatch", "confirm", "invoke", "loop"}
    \/ /\ pc = "idle"
       /\ result \notin {ErrStream, ErrShimNoCandidates, ErrShimNoText, ErrShimParse}

\* C11: when the text of a shim turn has prose before or after the fenced
\* block, or more than one fenced block, the round does not fail in the shim
\* and the calls of the turn are those of the first window alone (first
\* opening marker to the closing marker that follows it); the rest is dropped.
C11_FirstWindowOnly ==
    (EnableToolUseShim /\ turnText \in {TextBar, TextTwo}) =>
        /\ result # ErrShimParse
        /\ PastShim => functionCalls = FirstWindowCalls(turnText)

\* the two blocks arrived in one fragment and the round failed in the shim
C11_Witness ==
    /\ EnableToolUseShim
    /\ turnText = TextTwo
    /\ buffer = TextTwo
    /\ pc = "idle"
    /\ result = ErrShimParse

(***************************************************************************)
(* mcp.Client.Connect, Close, ListTools and CallTool, statement by         *)
(* statement: the Client has no lock, so the steps of two callers          *)
(* interleave.                                                             *)
(***************************************************************************)
ErrPreparing == "preparing environment"
ErrCreating == "creating MCP client"
ErrInitializing == "initializing connection"
ErrVerifying == "verifying connection"
ErrNotConnected == "not connected to MCP server"
ErrListing == "listing tools"
ErrCalling == "calling tool"
ErrTransportClose == "transport close error"
Pending == "pending"

NoPanic == \A g \in Callers : gpc[g] # "panic"

\* a call of g begins: does it overlap a call in progress?
Begins(g) == overlapped' = (overlapped \/ \E h \in Callers \ {g} : gpc[h] # "idle")

ConnectEntryAlwaysFresh(h) == "fresh"

\* if c.client != nil { return nil }
ConnectEntry(h) == IF h # NilClient THEN "already" ELSE "fresh"

\* c.client.Close() on transport h, as the history records it
CloseTransport(ts, h) == [ts EXCEPT ![h] = @ + 1]

cleanupKeepsHandle(h, ts) == [client |-> h, transports |-> CloseTransport(ts, h)]

\* cleanup(): if c.client != nil { _ = c.client.Close(); c.client = nil }
cleanup(h, ts) ==
    IF h # NilClient
    THEN [client |-> NilClient, transports |-> CloseTransport(ts, h)]
    ELSE [client |-> h, transports |-> ts]

\* the errors ListTools can return on handle h
ListToolsErrors(h) == IF h = NilClient THEN {ErrNotConnected} ELSE {"nil", ErrListing}

ErrToolReturned == "tool returned an error"
NoTextContent == "Tool executed successfully, but no text content was returned"

\* fmt.Errorf("tool error: %s", textContent.Text)
ErrTool(text) == "tool error: " \o text

\* the items of mcp.CallToolResult.Content
TextContent(text) == [type |-> "text", text |-> text]
ImageContent == [type |-> "image", text |-> ""]

\* what c.client.CallTool returns: an error, or a result
CallToolResult(content, isError) == [err |-> "nil", Content |-> content, IsError |-> isError]
CallToolFailed == [err |-> "transport", Content |-> <<>>, IsError |-> FALSE]

\* c.client.CallTool on a handle whose transport Close has closed: the request
\* goes to a closed transport and the library returns an error
CallToolOnClosed == [err |-> "transport closed", Content |-> <<>>, IsError |-> FALSE]

Texts == {"", "pods"}
Contents ==
    {<<>>, <<ImageContent>>}
        \cup {<<TextContent(t)>> : t \in Texts}
        \cup {<<ImageContent, TextContent(t)>> : t \in Texts \ {""}}
        \cup {<<TextContent(t), ImageContent>> : t \in Texts \ {""}}
Answers == {CallToolFailed} \cup {CallToolResult(c, e) : c \in Contents, e \in BOOLEAN}

\* textContent, ok := result.Content[0].(mcp.TextContent), under len(result.Content) > 0
FirstIsText(content) == Len(content) > 0 /\ content[1].type = "text"

callToolReturnIgnoresIsError(a) ==
    IF a.err # "nil" THEN [text |-> "", err |-> ErrCalling]
    ELSE IF FirstIsText(a.Content) THEN [text |-> a.Content[1].text, err |-> "nil"]
    ELSE [text |-> NoTextContent, err |-> "nil"]

\* the string and the error CallTool returns for the answer of the server
callToolReturn(a) ==
    IF a.err # "nil" THEN [text |-> "", err |-> ErrCalling]
    ELSE IF a.IsError
    THEN IF FirstIsText(a.Content)
         THEN [text |-> "", err |-> ErrTool(a.Content[1].text)]
         ELSE [text |-> "", err |-> ErrToolReturned]
    ELSE IF FirstIsText(a.Content) THEN [text |-> a.Content[1].text, err |-> "nil"]
    ELSE [text |-> NoTextContent, err |-> "nil"]

\* the errors CallTool can return on handle h
CallToolErrors(h) ==
    IF h = NilClient THEN {ErrNotConnected} ELSE {callToolReturn(a).err : a \in Answers}

\* caller g makes one step of its call: what it sent, where it goes, what the
\* call returns; a call that begins has a context of its own
Step(g, reqs, to, r) ==
    /\ gpc' = [gpc EXCEPT ![g] = to]
    /\ ret' = [ret EXCEPT ![g] = r]
    /\ wire' = [wire EXCEPT ![g] = IF gpc[g] = "idle" THEN reqs ELSE @ \o reqs]
    /\ ctxDone' = [ctxDone EXCEPT ![g] = IF gpc[g] = "idle" THEN FALSE ELSE @]
    /\ parent' = parent
    /\ reply' = [reply EXCEPT ![g] = IF gpc[g] = "idle" THEN NoResult ELSE @]

\* the steps of Connect that wait for the server under a context with a timeout
InFlight == {"init", "verify", "ping", "retry"}

StepCtxDoneNever(g) == FALSE

\* initCtx, verifyCtx, pingCtx, retryCtx := context.WithTimeout(<parent>, ...):
\* the step's context is done once the caller's ctx is, if it derives from it
StepCtxDone(g) == parent = "ctx" /\ ctxDone[g]

\* the caller cancels ctx while Connect is creating the client or waiting for
\* the server
CtxCancelled(g) ==
    /\ NoPanic
    /\ gpc[g] \in InFlight \cup {"create"}
    /\ ~ctxDone[g]
    /\ ctxDone' = [ctxDone EXCEPT ![g] = TRUE]
    /\ UNCHANGED <<client, transports, gpc, ret, overlapped, wire, parent, reply, outsideClient>>

\* Connect on a connected client
ConnectAlready(g) ==
    /\ NoPanic
    /\ gpc[g] = "idle"
    /\ ConnectEntry(client) = "already"
    /\ Step(g, <<>>, "idle", Returned("Connect", "nil", 0))
    /\ Begins(g)
    /\ UNCHANGED <<client, transports, outsideClient>>

\* prepareEnvironment fails: expandPath returns an error
ConnectPrepareFails(g) ==
    /\ NoPanic
    /\ gpc[g] = "idle"
    /\ ConnectEntry(client) = "fresh"
    /\ Step(g, <<>>, "idle", Returned("Connect", ErrPreparing, 1))
    /\ Begins(g)
    /\ UNCHANGED <<client, transports, outsideClient>>

ConnectPrepared(g) ==
    /\ NoPanic
    /\ gpc[g] = "idle"
    /\ ConnectEntry(client) = "fresh"
    /\ Step(g, <<>>, "create", Returned("Connect", Pending, 1))
    /\ Begins(g)
    /\ UNCHANGED <<client, transports, outsideClient>>

\* createMCPClient: NewStdioMCPClient fails, c.client is not assigned
CreateFails(g) ==
    /\ NoPanic
    /\ gpc[g] = "create"
    /\ Step(g, <<>>, "idle", Returned("Connect", ErrCreating, ret[g].ops + 1))
    /\ UNCHANGED <<client, transports, overlapped, outsideClient>>

\* createMCPClient: c.client = client
CreateOk(g) ==
    /\ NoPanic
    /\ gpc[g] = "create"
    /\ Len(transports) < MaxTransports
    /\ transports' = Append(transports, 0)
    /\ client' = Len(transports) + 1
    /\ Step(g, <<>>, "init", Returned("Connect", Pending, ret[g].ops + 1))
    /\ UNCHANGED <<overlapped, outsideClient>>

\* c.client.Initialize on a nil handle (another caller closed it)
InitializeNil(g) ==
    /\ NoPanic
    /\ gpc[g] = "init"
    /\ client = NilClient
    /\ Step(g, <<>>, "panic", ret[g])
    /\ UNCHANGED <<client, transports, overlapped, outsideClient>>

InitializeFails(g) ==
    /\ NoPanic
    /\ gpc[g] = "init"
    /\ client # NilClient
    /\ client' = cleanup(client, transports).client
    /\ transports' = cleanup(client, transports).transports
    /\ Step(g, <<Exchange("Initialize", FALSE)>>, "idle", Returned("Connect", ErrInitializing, ret[g].ops + 1))
    /\ UNCHANGED <<overlapped, outsideClient>>

InitializeOk(g) ==
    /\ NoPanic
    /\ gpc[g] = "init"
    /\ client # NilClient
    /\ ~StepCtxDone(g)
    /\ Step(g, <<Exchange("Initialize", TRUE)>>, "verify", Returned("Connect", Pending, ret[g].ops + 1))
    /\ UNCHANGED <<client, transports, overlapped, outsideClient>>

\* verifyConnection: the first ListTools
VerifyOk(g) ==
    /\ NoPanic
    /\ gpc[g] = "verify"
    /\ "nil" \in ListToolsErrors(client)
    /\ ~StepCtxDone(g)
    /\ Step(g, <<Exchange("ListTools", TRUE)>>, "idle", Returned("Connect", "nil", ret[g].ops + 1))
    /\ UNCHANGED <<client, transports, overlapped, outsideClient>>

VerifyListFails(g) ==
    /\ NoPanic
    /\ gpc[g] = "verify"
    /\ Step(g, <<Exchange("ListTools", FALSE)>>, "ping", Returned("Connect", Pending,
                                ret[g].ops + (IF client = NilClient THEN 0 ELSE 1)))
    /\ UNCHANGED <<client, transports, overlapped, outsideClient>>

\* a failed ping that went on to the second listing
PingFailsThenRetries(g) ==
    /\ NoPanic
    /\ gpc[g] = "ping"
    /\ client # NilClient
    /\ Step(g, <<Exchange("Ping", FALSE)>>, "retry", Returned("Connect", Pending, ret[g].ops + 1))
    /\ UNCHANGED <<client, transports, overlapped, outsideClient>>

\* retryConnectionWithPing: c.client.Ping on a nil handle
PingNil(g) ==
    /\ NoPanic
    /\ gpc[g] = "ping"
    /\ client = NilClient
    /\ Step(g, <<>>, "panic", ret[g])
    /\ UNCHANGED <<client, transports, overlapped, outsideClient>>

PingFails(g) ==
    /\ NoPanic
    /\ gpc[g] = "ping"
    /\ client # NilClient
    /\ client' = cleanup(client, transports).client
    /\ transports' = cleanup(client, transports).transports
    /\ Step(g, <<Exchange("Ping", FALSE)>>, "idle", Returned("Connect", ErrVerifying, ret[g].ops + 1))
    /\ UNCHANGED <<overlapped, outsideClient>>

PingOk(g) ==
    /\ NoPanic
    /\ gpc[g] = "ping"
    /\ client # NilClient
    /\ ~StepCtxDone(g)
    /\ Step(g, <<Exchange("Ping", TRUE)>>, "retry", Returned("Connect", Pending, ret[g].ops + 1))
    /\ UNCHANGED <<client, transports, overlapped, outsideClient>>

\* the second ListTools
RetryListOk(g) ==
    /\ NoPanic
    /\ gpc[g] = "retry"
    /\ "nil" \in ListToolsErrors(client)
    /\ ~StepCtxDone(g)
    /\ Step(g, <<Exchange("ListTools", TRUE)>>, "idle", Returned("Connect", "nil", ret[g].ops + 1))
    /\ UNCHANGED <<client, transports, overlapped, outsideClient>>

RetryListFails(g) ==
    /\ NoPanic
    /\ gpc[g] = "retry"
    /\ client' = cleanup(client, transports).client
    /\ transports' = cleanup(client, transports).transports
    /\ Step(g, <<Exchange("ListTools", FALSE)>>, "idle", Returned("Connect", ErrVerifying,
                                ret[g].ops + (IF client = NilClient THEN 0 ELSE 1)))
    /\ UNCHANGED <<overlapped, outsideClient>>

CloseLeavesHandle(g) ==
    /\ NoPanic
    /\ gpc[g] = "idle"
    /\ client # NilClient
    /\ transports' = CloseTransport(transports, client)
    /\ \E e \in {"nil", ErrTransportClose} : Step(g, <<>>, "idle", Returned("Close", e, 1))
    /\ Begins(g)
    /\ UNCHANGED <<client, outsideClient>>

\* Close on a connected client: err = c.client.Close()
CloseConnected(g) ==
    /\ NoPanic
    /\ gpc[g] = "idle"
    /\ client # NilClient
    /\ transports' = CloseTransport(transports, client)
    /\ Step(g, <<>>, "closing", Returned("Close", Pending, 1))
    /\ Begins(g)
    /\ UNCHANGED <<client, outsideClient>>

\* c.client = nil; the transport's error, if any, is returned
CloseReset(g) ==
    /\ NoPanic
    /\ gpc[g] = "closing"
    /\ client' = NilClient
    /\ \E e \in {"nil", ErrTransportClose} : Step(g, <<>>, "idle", Returned("Close", e, 1))
    /\ UNCHANGED <<transports, overlapped, outsideClient>>

\* Close on an unconnected client
CloseUnconnected(g) ==
    /\ NoPanic
    /\ gpc[g] = "idle"
    /\ client = NilClient
    /\ Step(g, <<>>, "idle", Returned("Close", "nil", 0))
    /\ Begins(g)
    /\ UNCHANGED <<client, transports, outsideClient>>

ListTools(g) ==
    /\ NoPanic
    /\ gpc[g] = "idle"
    /\ \E e \in ListToolsErrors(client) :
          Step(g, <<>>, "idle", Returned("ListTools", e, IF client = NilClient THEN 0 ELSE 1))
    /\ Begins(g)
    /\ UNCHANGED <<client, transports, outsideClient>>

\* if c.client == nil { return "", "not connected" }
CallToolNotConnected(g) ==
    /\ NoPanic
    /\ gpc[g] = "idle"
    /\ client = NilClient
    /\ Step(g, <<>>, "idle", Returned("CallTool", ErrNotConnected, 0))
    /\ Begins(g)
    /\ UNCHANGED <<client, transports, outsideClient>>

\* c.client != nil: the arguments are converted and the request is built
CallToolChecked(g) ==
    /\ NoPanic
    /\ gpc[g] = "idle"
    /\ client # NilClient
    /\ Step(g, <<>>, "call", Returned("CallTool", Pending, 0))
    /\ Begins(g)
    /\ UNCHANGED <<client, transports, outsideClient>>

\* c.client.CallTool on a handle that another caller's Close has set to nil
CallToolNil(g) ==
    /\ NoPanic
    /\ gpc[g] = "call"
    /\ client = NilClient
    /\ Step(g, <<>>, "panic", ret[g])
    /\ UNCHANGED <<client, transports, overlapped, outsideClient>>

\* result, err := c.client.CallTool(ctx, request), and what is made of it
CallTool(g) ==
    /\ NoPanic
    /\ gpc[g] = "call"
    /\ client # NilClient
    /\ \E a \in IF transports[client] > 0 THEN {CallToolOnClosed} ELSE Answers :
          /\ gpc' = [gpc EXCEPT ![g] = "idle"]
          /\ ret' = [ret EXCEPT ![g] = Returned("CallTool", callToolReturn(a).err, 1)]
          /\ reply' = [reply EXCEPT ![g] = [answer |-> a, text |-> callToolReturn(a).text]]
    /\ UNCHANGED <<client, transports, overlapped, wire, ctxDone, parent, outsideClient>>

InitClient ==
    /\ NewClient
    /\ parent \in Parents
    /\ AgentIdle
    /\ RetryIdle
    /\ ManagerIdle
    /\ LockIdle
    /\ ConfigIdle
    /\ WorkDirIdle
    /\ ArgsIdle

NextClient ==
    \/ \E g \in Callers : ConnectAlready(g)
    \/ \E g \in Callers : ConnectPrepareFails(g)
    \/ \E g \in Callers : ConnectPrepared(g)
    \/ \E g \in Callers : CreateFails(g)
    \/ \E g \in Callers : CreateOk(g)
    \/ \E g \in Callers : InitializeNil(g)
    \/ \E g \in Callers : InitializeFails(g)
    \/ \E g \in Callers : InitializeOk(g)
    \/ \E g \in Callers : VerifyOk(g)
    \/ \E g \in Callers : VerifyListFails(g)
    \/ \E g \in Callers : PingNil(g)
    \/ \E g \in Callers : PingFails(g)
    \/ \E g \in Callers : PingOk(g)
    \/ \E g \in Callers : RetryListOk(g)
    \/ \E g \in Callers : RetryListFails(g)
    \/ \E g \in Callers : CloseConnected(g)
    \/ \E g \in Callers : CloseReset(g)
    \/ \E g \in Callers : CloseUnconnected(g)
    \/ \E g \in Callers : ListTools(g)
    \/ \E g \in Callers : CallToolNotConnected(g)
    \/ \E g \in Callers : CallToolChecked(g)
    \/ \E g \in Callers : CallToolNil(g)
    \/ \E g \in Callers : CallTool(g)
    \/ \E g \in Callers : CtxCancelled(g)

SpecClient == InitClient /\ [][NextClient]_vars

(***************************************************************************)
(* C12 - C14: the Client's handle and its transports.                      *)
(***************************************************************************)
\* caller g made a step, and it belongs to a call of the named method
Called(g, method) ==
    /\ ret'[g].call = method
    /\ gpc'[g] # gpc[g] \/ ret'[g] # ret[g]

C12_Step ==
    \A g \in Callers :
        (gpc[g] = "idle" /\ client # NilClient /\ Called(g, "Connect")) =>
            /\ gpc'[g] = "idle"
            /\ ret'[g] = Returned("Connect", "nil", 0)
            /\ client' = client
            /\ transports' = transports

\* C12: a Connect that begins on a connected client returns nil at once: it
\* makes no operation at all (no resolution, creation, handshake, listing or
\* ping) and the handle and the transports are as before.
C12_ConnectIdempotent == [][C12_Step]_vars

C12_Witness ==
    /\ ~overlapped
    /\ client = 1
    /\ transports = <<0>>
    /\ ret["g1"] = Returned("Connect", "nil", 4)
    /\ ret["g2"] = Returned("Connect", "nil", 0)

AllClosed == \A t \in 1..Len(transports) : transports[t] >= 1

C13_Step ==
    \A g \in Callers :
        (~overlapped /\ ret[g].err = Pending
            /\ ret'[g].err \in {ErrInitializing, ErrVerifying}) =>
            /\ client # NilClient
            /\ transports[client] = 0
            /\ transports'[client] = 1
            /\ client' = NilClient
            /\ gpc'[g] = "idle"
            /\ ListToolsErrors(client') = {ErrNotConnected}
            /\ CallToolErrors(client') = {ErrNotConnected}
            /\ ConnectEntry(client') = "fresh"

\* C13: in calls that do not overlap, a Connect that fails in the handshake
\* or in the verification returns with the transport it created closed and the
\* handle nil; ListTools and CallTool then return "not connected" and the next
\* Connect takes the fresh path; whenever such a call has returned and no call
\* runs, a nil handle means every transport is closed.
C13_CleanupOnFailure ==
    /\ [][C13_Step]_vars
    /\ []((~overlapped /\ client = NilClient /\ \A g \in Callers : gpc[g] = "idle")
            => AllClosed)

C13_Witness ==
    /\ ~overlapped
    /\ ret["g1"] = Returned("Connect", ErrInitializing, 3)
    /\ ret["g2"] = Returned("Connect", "nil", 4)
    /\ transports = <<1, 0>>
    /\ client = 2

AtMostOneLive ==
    \A t \in 1..Len(transports) :
        /\ transports[t] <= 1
        /\ transports[t] = 0 => client = t

C14_CloseStep ==
    \A g \in Callers :
        (gpc[g] = "idle" /\ client = NilClient /\ Called(g, "Close")) =>
            /\ ret'[g] = Returned("Close", "nil", 0)
            /\ transports' = transports
            /\ client' = NilClient

\* C14 as stated, for every interleaving of the callers' steps: every
\* transport ever created is the current handle or has been closed, once.
C14_AnyInterleaving ==
    \A t \in 1..Len(transports) :
        transports[t] = 0 => client = t

\* C14 for calls that do not overlap: every transport ever created is the
\* current handle or has been closed, exactly once; Close on a client with a
\* nil handle returns nil and closes nothing.
C14_OneLiveTransport ==
    /\ [](~overlapped => AtMostOneLive)
    /\ [][C14_CloseStep]_vars

C14_Witness ==
    /\ ~overlapped
    /\ transports = <<1, 1, 0>>
    /\ client = 3
    /\ ret["g2"] = Returned("Close", "nil", 0)

(***************************************************************************)
(* RetryOperation: the operation is invoked until it returns nil or        *)
(* config.MaxRetries invocations failed, with a wait between two attempts. *)
(***************************************************************************)
ErrOperationCancelled == "operation cancelled"
ErrOperationFailed == "operation failed after attempts"
CtxCanceled == "context canceled"

\* the errors an operation can return
OperationErrors == {"nil", "e1", "e2"}

RECURSIVE Pow(_, _)
Pow(b, n) == IF n = 0 THEN 1 ELSE b * Pow(b, n - 1)

\* calculateBackoffDelay
calculateBackoffDelay(a, config) ==
    LET delay == config.BaseDelay * Pow(config.Multiplier, a - 1)
    IN IF delay > config.MaxDelay THEN config.MaxDelay ELSE delay

Invoked(err) == [kind |-> "call", err |-> err, delay |-> 0]
Waited(delay) == [kind |-> "wait", err |-> "", delay |-> delay]
Aborted == [kind |-> "cancel", err |-> "", delay |-> 0]

RetryReturn(r) ==
    /\ rpc' = "idle"
    /\ rret' = r

\* the head of the for loop with attempt = a: attempt <= config.MaxRetries,
\* and the return after the loop
InLoop(a, config) == a <= config.MaxRetries

LoopHead(a, config, le) ==
    /\ attempt' = a
    /\ IF InLoop(a, config)
       THEN /\ rpc' = "call"
            /\ UNCHANGED rret
       ELSE RetryReturn(Ret(ErrOperationFailed, le))

WaitsAfterEveryFailure(a, config) == a <= config.MaxRetries

\* if attempt < config.MaxRetries: a wait follows the failure
WaitsAfterFailure(a, config) == a < config.MaxRetries

\* the operation returned err in the attempt of the loop body
AfterOperation(err) ==
    IF err = "nil"
    THEN /\ RetryReturn(Ret("nil", "nil"))
         /\ UNCHANGED <<attempt, lastErr>>
    ELSE /\ lastErr' = err
         /\ IF WaitsAfterFailure(attempt, retryConfig)
            THEN /\ rpc' = "wait"
                 /\ UNCHANGED <<attempt, rret>>
            ELSE LoopHead(attempt + 1, retryConfig, err)

SelectReadyPlainSleep(done) == {"timer"}

\* the cases of the select that can be taken: ctx.Done() is ready as soon as
\* the context is cancelled, the timer only after the whole delay
SelectReady(done) == IF done THEN {"done"} ELSE {"timer"}

\* RetryOperation(ctx, config, operation) is called
RetryOperation ==
    /\ rpc = "idle"
    /\ \E n \in 0..MaxRetriesBound :
          /\ retryConfig' = [DefaultRetryConfig EXCEPT !.MaxRetries = n]
          /\ attempt' = 1
          /\ IF InLoop(1, retryConfig')
             THEN /\ rpc' = "call"
                  /\ rret' = Ret(Pending, "nil")
             ELSE RetryReturn(Ret(ErrOperationFailed, "nil"))
    /\ lastErr' = "nil"
    /\ cancelled' \in BOOLEAN
    /\ cancelledAt' = IF cancelled' THEN "before" ELSE "never"
    /\ trace' = <<>>
    /\ UNCHANGED outsideRetry

\* operation() is invoked and returns
Operation ==
    /\ rpc = "call"
    /\ \E err \in OperationErrors :
          /\ trace' = Append(trace, Invoked(err))
          /\ AfterOperation(err)
    /\ UNCHANGED <<retryConfig, cancelled, cancelledAt, outsideRetry>>

\* case <-time.After(delay)
WaitElapsed ==
    /\ rpc = "wait"
    /\ "timer" \in SelectReady(cancelled)
    /\ trace' = Append(trace, Waited(calculateBackoffDelay(attempt, retryConfig)))
    /\ LoopHead(attempt + 1, retryConfig, lastErr)
    /\ UNCHANGED <<retryConfig, lastErr, cancelled, cancelledAt, outsideRetry>>

\* case <-ctx.Done()
WaitCancelled ==
    /\ rpc = "wait"
    /\ "done" \in SelectReady(cancelled)
    /\ trace' = Append(trace, Aborted)
    /\ RetryReturn(Ret(ErrOperationCancelled, CtxCanceled))
    /\ UNCHANGED <<retryConfig, attempt, lastErr, cancelled, cancelledAt, outsideRetry>>

\* the caller cancels the context
CtxCancel ==
    /\ rpc # "idle"
    /\ ~cancelled
    /\ cancelled' = TRUE
    /\ cancelledAt' = rpc
    /\ UNCHANGED <<rpc, retryConfig, attempt, lastErr, rret, trace, outsideRetry>>

InitRetry ==
    /\ RetryIdle
    /\ AgentIdle
    /\ ClientIdle
    /\ ManagerIdle
    /\ LockIdle
    /\ ConfigIdle
    /\ WorkDirIdle
    /\ ArgsIdle

NextRetry ==
    \/ RetryOperation
    \/ Operation
    \/ WaitElapsed
    \/ WaitCancelled
    \/ CtxCancel

SpecRetry == InitRetry /\ [][NextRetry]_vars

(***************************************************************************)
(* C20: the attempts and the waits of RetryOperation.                      *)
(***************************************************************************)
IsCall(e) == e.kind = "call"
Calls(t) == SelectSeq(t, IsCall)
RetryReturned == rpc = "idle" /\ rret.msg # "none"

\* the operation is never invoked more than MaxRetries times, and a nil
\* result ends the call with nil
C20_Attempts ==
    /\ Len(Calls(trace)) <= retryConfig.MaxRetries
    /\ \A i \in 1..Len(trace) :
          (IsCall(trace[i]) /\ trace[i].err = "nil") =>
              /\ i = Len(trace)
              /\ rpc = "idle"
              /\ rret = Ret("nil", "nil")
    /\ (RetryReturned /\ rret.msg = "nil") =>
          /\ trace # <<>>
          /\ trace[Len(trace)] = Invoked("nil")

\* when every one of MaxRetries invocations failed the error wraps the last
\* failure, and that error is returned in no other case
AllFailed ==
    /\ Len(Calls(trace)) = retryConfig.MaxRetries
    /\ \A i \in 1..Len(trace) : trace[i].err # "nil"
    /\ trace = <<>> \/ IsCall(trace[Len(trace)])

C20_Exhausted ==
    /\ RetryReturned => (rret.msg = ErrOperationFailed <=> AllFailed)
    /\ (RetryReturned /\ rret.msg = ErrOperationFailed /\ trace # <<>>) =>
          rret.wraps = trace[Len(trace)].err

\* with MaxRetries = 3 an operation that fails twice and then succeeds has
\* been invoked exactly 3 times when RetryOperation returns, and nil is returned
C20_TwiceThenOk ==
    (RetryReturned /\ retryConfig.MaxRetries = 3 /\ rret.msg # ErrOperationCancelled
        /\ Len(Calls(trace)) >= 2
        /\ Calls(trace)[1].err # "nil" /\ Calls(trace)[2].err # "nil") =>
            /\ Len(Calls(trace)) = 3
            /\ Calls(trace)[3].err = "nil" => rret = Ret("nil", "nil")

\* a wait follows a failed invocation and is followed by the next one; there
\* is none before the first invocation and none after the last one
C20_Waits ==
    /\ \A i \in 1..Len(trace) :
          trace[i].kind # "call" =>
              /\ i > 1
              /\ IsCall(trace[i - 1]) /\ trace[i - 1].err # "nil"
              /\ trace[i].kind = "wait" =>
                    /\ i < Len(trace) => IsCall(trace[i + 1])
                    /\ i = Len(trace) => rpc = "call"
              /\ trace[i].kind = "cancel" => i = Len(trace) /\ rpc = "idle"
    /\ rpc = "wait" =>
          /\ trace # <<>>
          /\ IsCall(trace[Len(trace)])
          /\ Len(Calls(trace)) < retryConfig.MaxRetries
    /\ \A i \in 1..(Len(trace) - 1) :
          (IsCall(trace[i]) /\ IsCall(trace[i + 1])) => FALSE

\* C20: RetryOperation invokes the operation one attempt at a time, stops at
\* the first nil and returns nil, never invokes it more than MaxRetries times,
\* returns an error wrapping the last failure when all MaxRetries attempts
\* failed; fails-twice-then-succeeds is invoked exactly 3 times with
\* MaxRetries = 3; a wait occurs only between two attempts.
C20_RetryOperation ==
    /\ C20_Attempts
    /\ C20_Exhausted
    /\ C20_TwiceThenOk
    /\ C20_Waits

C20_Witness ==
    /\ RetryReturned
    /\ retryConfig.MaxRetries = 3
    /\ rret = Ret("nil", "nil")
    /\ trace = <<Invoked("e1"), Waited(1), Invoked("e2"), Waited(2), Invoked("nil")>>

(***************************************************************************)
(* mcp.Manager: ConnectAll, Close, ListAvailableTools and                  *)
(* RefreshToolDiscovery. ConnectAll and Close hold m.mu for the whole      *)
(* call and ListAvailableTools holds its read side, so one operation runs  *)
(* at a time; Client.Connect, Close and ListTools are the calls modelled   *)
(* above, seen here by their result.                                       *)
(***************************************************************************)
ErrConnectSome == "failed to connect to some MCP servers"
ErrCloseSome == "errors while closing MCP clients"

\* the registries: server names without repetition, in any order
Registries ==
    UNION {{q \in [1..n -> ServerNames] : \A i, j \in 1..n : i # j => q[i] # q[j]} :
              n \in 0..Cardinality(ServerNames)}

\* the tools each server offers
ToolsOf(name) == IF name = "s1" THEN <<"get", "apply">> ELSE <<"get">>

\* ToolInfo{Name: tool.Name, Server: name} for every tool of the list
ToolInfo(name, list) ==
    [i \in DOMAIN list |-> [Name |-> list[i], Server |-> name]]

\* delete(m, key)
Without(m, key) == [k \in DOMAIN m \ {key} |-> m[k]]

\* m[key] = value
With(m, key, value) == [k \in DOMAIN m \cup {key} |-> IF k = key THEN value ELSE m[k]]

Connected(name, id, ok) == [name |-> name, id |-> id, ok |-> ok]
Closed(id, ok) == [id |-> id, ok |-> ok]

\* if len(errs) > 0 { return fmt.Errorf(...) }; return nil
Aggregate(es, msg) == IF Len(es) > 0 THEN msg ELSE "nil"

loopFrame == <<servers, objs, tools, made, failedListing, retryVars, outsideManager>>
closeFrame == <<servers, tools, made, failedListing, retryVars, outsideManager>>

\* a *Client: its Name, whether its handle is set (c.client != nil), and
\* whether Close was called on its transport
ClientObject(name, connected, closed) ==
    [Name |-> name, connected |-> connected, closed |-> closed]

\* the locals and the histories of an operation that begins
Begin(op) ==
    /\ mpc' = op
    /\ idx' = 1
    /\ todo' = IF op = "connectAll" THEN {} ELSE DOMAIN clients
    /\ errs' = <<>>
    /\ tools' = EmptyMap
    /\ before' = clients
    /\ connectLog' = <<>>
    /\ closeLog' = {}
    /\ failedListing' = {}

ConnectAll ==
    /\ mpc = "idle"
    /\ made + Cardinality({i \in DOMAIN servers : servers[i] \notin DOMAIN clients})
          <= MaxClients
    /\ Begin("connectAll")
    /\ UNCHANGED <<servers, objs, clients, mret, made, retryVars, outsideManager>>

ConnectSkipReplaces ==
    /\ mpc = "connectAll"
    /\ idx <= Len(servers)
    /\ servers[idx] \in DOMAIN clients
    /\ made < MaxClients
    /\ made' = made + 1
    /\ clients' = With(clients, servers[idx], made + 1)
    /\ objs' = With(objs, made + 1, ClientObject(servers[idx], TRUE, FALSE))
    /\ idx' = idx + 1
    /\ UNCHANGED <<mpc, errs, before, connectLog, todo, mret, closeLog, servers, tools,
                   failedListing, retryVars, outsideManager>>

\* the server is in the map: continue
ConnectSkip ==
    /\ mpc = "connectAll"
    /\ idx <= Len(servers)
    /\ servers[idx] \in DOMAIN clients
    /\ idx' = idx + 1
    /\ UNCHANGED <<mpc, clients, errs, before, connectLog, todo, mret, closeLog,
                   servers, objs, tools, made, failedListing, retryVars, outsideManager>>

ConnectFailsAborts ==
    /\ mpc = "connectAll"
    /\ idx <= Len(servers)
    /\ servers[idx] \notin DOMAIN clients
    /\ made' = made + 1
    /\ connectLog' = Append(connectLog, Connected(servers[idx], made + 1, FALSE))
    /\ errs' = Append(errs, servers[idx])
    /\ idx' = Len(servers) + 1
    /\ UNCHANGED <<mpc, clients, before, todo, mret, closeLog, servers, objs, tools,
                   failedListing, retryVars, outsideManager>>

\* a loop that stores the client whatever Connect returned
ConnectFailsStores ==
    /\ mpc = "connectAll"
    /\ idx <= Len(servers)
    /\ servers[idx] \notin DOMAIN clients
    /\ made' = made + 1
    /\ connectLog' = Append(connectLog, Connected(servers[idx], made + 1, FALSE))
    /\ errs' = Append(errs, servers[idx])
    /\ clients' = With(clients, servers[idx], made + 1)
    /\ objs' = With(objs, made + 1, ClientObject(servers[idx], FALSE, TRUE))
    /\ idx' = idx + 1
    /\ UNCHANGED <<mpc, before, todo, mret, closeLog, servers, tools,
                   failedListing, retryVars, outsideManager>>

\* NewClient, and client.Connect returns an error: collected, continue
ConnectFails ==
    /\ mpc = "connectAll"
    /\ idx <= Len(servers)
    /\ servers[idx] \notin DOMAIN clients
    /\ made' = made + 1
    /\ connectLog' = Append(connectLog, Connected(servers[idx], made + 1, FALSE))
    /\ errs' = Append(errs, servers[idx])
    /\ idx' = idx + 1
    /\ UNCHANGED <<mpc, clients, before, todo, mret, closeLog, servers, objs, tools,
                   failedListing, retryVars, outsideManager>>

\* NewClient, and client.Connect returns nil: m.clients[name] = client
ConnectOk ==
    /\ mpc = "connectAll"
    /\ idx <= Len(servers)
    /\ servers[idx] \notin DOMAIN clients
    /\ made' = made + 1
    /\ connectLog' = Append(connectLog, Connected(servers[idx], made + 1, TRUE))
    /\ clients' = With(clients, servers[idx], made + 1)
    /\ objs' = With(objs, made + 1, ClientObject(servers[idx], TRUE, FALSE))
    /\ idx' = idx + 1
    /\ UNCHANGED <<mpc, errs, before, todo, mret, closeLog, servers, tools,
                   failedListing, retryVars, outsideManager>>

ConnectAllReturn ==
    /\ mpc = "connectAll"
    /\ idx > Len(servers)
    /\ mret' = MRet("ConnectAll", Aggregate(errs, ErrConnectSome), EmptyMap)
    /\ mpc' = "idle"
    /\ UNCHANGED <<clients, idx, errs, before, connectLog, todo, closeLog, loopFrame>>

\* Manager.Close
Close ==
    /\ mpc = "idle"
    /\ Begin("close")
    /\ UNCHANGED <<servers, objs, clients, mret, made, retryVars, outsideManager>>

CloseOneKeepsFailed ==
    /\ mpc = "close"
    /\ \E name \in todo :
          /\ todo' = todo \ {name}
          /\ \/ /\ errs' = errs
                /\ closeLog' = closeLog \cup {Closed(clients[name], TRUE)}
                /\ clients' = Without(clients, name)
             \/ /\ errs' = Append(errs, name)
                /\ closeLog' = closeLog \cup {Closed(clients[name], FALSE)}
                /\ clients' = clients
          /\ objs' = IF name \in DOMAIN clients'
                     THEN [objs EXCEPT ![clients[name]] = ClientObject(name, FALSE, TRUE)]
                     ELSE Without(objs, clients[name])
    /\ UNCHANGED <<mpc, idx, mret, before, connectLog, closeFrame>>

\* one pass of the range loop: client.Close(), then delete(m.clients, name)
CloseOne ==
    /\ mpc = "close"
    /\ \E name \in todo :
          /\ todo' = todo \ {name}
          /\ \/ /\ errs' = errs
                /\ closeLog' = closeLog \cup {Closed(clients[name], TRUE)}
             \/ /\ errs' = Append(errs, name)
                /\ closeLog' = closeLog \cup {Closed(clients[name], FALSE)}
          /\ clients' = Without(clients, name)
          /\ objs' = Without(objs, clients[name])
    /\ UNCHANGED <<mpc, idx, mret, before, connectLog, closeFrame>>

CloseReturn ==
    /\ mpc = "close"
    /\ todo = {}
    /\ mret' = MRet("Close", Aggregate(errs, ErrCloseSome), EmptyMap)
    /\ mpc' = "idle"
    /\ UNCHANGED <<clients, idx, todo, errs, before, connectLog, closeLog, loopFrame>>

\* ListAvailableTools, called directly
ListAvailableTools ==
    /\ mpc = "idle"
    /\ Begin("list")
    /\ UNCHANGED <<servers, objs, clients, mret, made, retryVars, outsideManager>>

ListOneDropsFailed ==
    /\ mpc = "list"
    /\ \E name \in todo :
          /\ todo' = todo \ {name}
          /\ \/ /\ tools' = With(tools, name, ToolInfo(name, ToolsOf(name)))
                /\ UNCHANGED <<failedListing, clients>>
             \/ /\ failedListing' = failedListing \cup {name}
                /\ clients' = Without(clients, name)
                /\ UNCHANGED tools
    /\ UNCHANGED <<servers, objs, mpc, idx, errs, mret, made, before, connectLog, closeLog,
                   retryVars, outsideManager>>

\* one pass of the range loop: client.ListTools succeeds or fails
ListOne ==
    /\ mpc = "list"
    /\ \E name \in todo :
          /\ todo' = todo \ {name}
          /\ \/ /\ tools' = With(tools, name, ToolInfo(name, ToolsOf(name)))
                /\ UNCHANGED failedListing
             \/ /\ failedListing' = failedListing \cup {name}
                /\ UNCHANGED tools
    /\ UNCHANGED <<servers, objs, clients, mpc, idx, errs, mret, made, before, connectLog,
                   closeLog, retryVars, outsideManager>>

\* the error ListAvailableTools returns: return tools, nil
ListAvailableToolsError == "nil"

ListReturn ==
    /\ mpc = "list"
    /\ todo = {}
    /\ rpc = "idle"
    /\ mret' = MRet("ListAvailableTools", ListAvailableToolsError, tools)
    /\ mpc' = "idle"
    /\ UNCHANGED <<clients, idx, todo, errs, before, connectLog, closeLog, loopFrame>>

\* RefreshToolDiscovery: RetryOperation(ctx, DefaultRetryConfig(...), ...)
RefreshToolDiscovery ==
    /\ mpc = "idle"
    /\ rpc = "idle"
    /\ Begin("refresh")
    /\ retryConfig' = DefaultRetryConfig
    /\ attempt' = 1
    /\ IF InLoop(1, retryConfig')
       THEN /\ rpc' = "call"
            /\ rret' = Ret(Pending, "nil")
       ELSE RetryReturn(Ret(ErrOperationFailed, "nil"))
    /\ lastErr' = "nil"
    /\ cancelled' \in BOOLEAN
    /\ cancelledAt' = IF cancelled' THEN "before" ELSE "never"
    /\ trace' = <<>>
    /\ UNCHANGED <<servers, objs, clients, mret, made, outsideManager>>

\* the operation of the retry: serverTools, err = m.ListAvailableTools(ctx)
RefreshOperation ==
    /\ mpc = "refresh"
    /\ rpc = "call"
    /\ mpc' = "list"
    /\ todo' = DOMAIN clients
    /\ tools' = EmptyMap
    /\ UNCHANGED <<servers, objs, clients, idx, errs, mret, made, before, connectLog, closeLog,
                   failedListing, retryVars, outsideManager>>

\* ListAvailableTools returns to the retry, which decides; when the retry
\* returns, RefreshToolDiscovery returns
RefreshListReturn ==
    /\ mpc = "list"
    /\ todo = {}
    /\ rpc = "call"
    /\ trace' = Append(trace, Invoked(ListAvailableToolsError))
    /\ AfterOperation(ListAvailableToolsError)
    /\ IF rpc' = "idle"
       THEN /\ mpc' = "idle"
            /\ mret' = IF rret'.msg = "nil"
                       THEN MRet("RefreshToolDiscovery", "nil", tools)
                       ELSE MRet("RefreshToolDiscovery", rret'.msg, EmptyMap)
       ELSE /\ mpc' = "refresh"
            /\ UNCHANGED mret
    /\ UNCHANGED <<servers, objs, clients, idx, todo, errs, tools, made, before, connectLog,
                   closeLog, failedListing, retryConfig, cancelled, cancelledAt,
                   outsideManager>>

ErrServerNotConnected == "MCP server not connected"
ErrCallingMCPTool == "calling MCP tool on server"

\* what MCPTool.Run returned for the tool of a server, and the CallTool it issued
RunRet(name, err, called) ==
    [op |-> "Run", err |-> err, tools |-> EmptyMap, server |-> name, called |-> called]

GetClientFindsAny(m, name) == TRUE

\* client, exists := m.clients[name]
GetClientExists(m, name) == name \in DOMAIN m

\* MCPTool.Run of a registered tool of the server: the tool outlives the
\* connection it was discovered on
Run ==
    /\ mpc = "idle"
    /\ \E name \in ServerNames :
          IF ~GetClientExists(clients, name)
          THEN mret' = RunRet(name, ErrServerNotConnected, <<>>)
          ELSE \E err \in {"nil", ErrCallingMCPTool} : mret' = RunRet(name, err, <<name>>)
    /\ UNCHANGED <<clients, mpc, idx, todo, errs, before, connectLog, closeLog, loopFrame>>

InitManager ==
    /\ \E names \in Registries : NewManager(names)
    /\ AgentIdle
    /\ ClientIdle
    /\ RetryIdle
    /\ LockIdle
    /\ ConfigIdle
    /\ WorkDirIdle
    /\ ArgsIdle

NextManager ==
    \/ Run
    \/ ConnectAll
    \/ ConnectSkip
    \/ ConnectFails
    \/ ConnectOk
    \/ ConnectAllReturn
    \/ Close
    \/ CloseOne
    \/ CloseReturn
    \/ ListAvailableTools
    \/ ListOne
    \/ ListReturn
    \/ RefreshToolDiscovery
    \/ RefreshOperation
    \/ RefreshListReturn

SpecManager == InitManager /\ [][NextManager]_vars

(***************************************************************************)
(* C15 - C19: the Manager's operations.                                    *)
(***************************************************************************)
\* the operation op has returned and no other operation has begun
MReturned(op) == mpc = "idle" /\ mret.op = op

Values(m) == {m[k] : k \in DOMAIN m}

\* C15: ConnectAll on an empty live map makes one Connect per configured
\* server, in order, a failure not ending the loop; on return the live map
\* holds exactly the clients whose Connect succeeded and the error is non-nil
\* iff a Connect failed.
C15_ConnectAll ==
    (MReturned("ConnectAll") /\ before = EmptyMap) =>
        /\ Len(connectLog) = Len(servers)
        /\ \A i \in DOMAIN connectLog : connectLog[i].name = servers[i]
        /\ DOMAIN clients = {connectLog[i].name : i \in {j \in DOMAIN connectLog : connectLog[j].ok}}
        /\ \A i \in DOMAIN connectLog : connectLog[i].ok => clients[connectLog[i].name] = connectLog[i].id
        /\ mret.err # "nil" <=> \E i \in DOMAIN connectLog : ~connectLog[i].ok

C15_Witness ==
    /\ MReturned("ConnectAll")
    /\ before = EmptyMap
    /\ Len(servers) = 3
    /\ ~connectLog[1].ok /\ connectLog[2].ok /\ ~connectLog[3].ok
    /\ DOMAIN clients = {servers[2]}
    /\ mret.err = ErrConnectSome

\* C16: during and after a ConnectAll the entries that were in the live map
\* when it began are unchanged and no Connect is made for their servers; on
\* return every configured server that was absent has been attempted, once.
C16_RepeatedConnectAll ==
    (mpc = "connectAll" \/ MReturned("ConnectAll")) =>
        /\ \A name \in DOMAIN before : name \in DOMAIN clients /\ clients[name] = before[name]
        /\ \A i \in DOMAIN connectLog :
              /\ connectLog[i].name \notin DOMAIN before
              /\ connectLog[i].id \notin Values(before)
              /\ \A j \in DOMAIN connectLog : connectLog[j].name = connectLog[i].name => j = i
        /\ MReturned("ConnectAll") =>
              {connectLog[i].name : i \in DOMAIN connectLog}
                  = {servers[i] : i \in DOMAIN servers} \ DOMAIN before

\* a second ConnectAll: s1 is live and left alone, s2 failed before and is
\* attempted again
C16_Witness ==
    /\ MReturned("ConnectAll")
    /\ servers = <<"s1", "s2">>
    /\ before = With(EmptyMap, "s1", 1)
    /\ connectLog = <<Connected("s2", 3, TRUE)>>
    /\ clients = With(before, "s2", 3)

\* C17: Close calls Close on every client of the live map, whatever the
\* results, leaves the map empty, and returns a non-nil error iff a client
\* failed to close.
C17_Close ==
    /\ mpc = "close" =>
          /\ DOMAIN clients = todo
          /\ {e.id : e \in closeLog} = Values(before) \ Values(clients)
    /\ MReturned("Close") =>
          /\ {e.id : e \in closeLog} = Values(before)
          /\ clients = EmptyMap
          /\ mret.err # "nil" <=> \E e \in closeLog : ~e.ok

C17_Witness ==
    /\ MReturned("Close")
    /\ Cardinality(DOMAIN before) = 3
    /\ Cardinality(closeLog) = 3
    /\ Cardinality({e \in closeLog : ~e.ok}) = 2
    /\ clients = EmptyMap
    /\ mret.err = ErrCloseSome

\* C18: ListAvailableTools calls ListTools on every client of the live map;
\* the result holds the tools of exactly the clients whose listing succeeded,
\* each tagged with its server name; the error is nil and the live map is as
\* before.
C18_ListAvailableTools ==
    /\ (mpc = "list" /\ rpc = "idle") => clients = before
    /\ MReturned("ListAvailableTools") =>
          /\ clients = before
          /\ mret.err = "nil"
          /\ DOMAIN mret.tools = DOMAIN clients \ failedListing
          /\ \A name \in DOMAIN mret.tools :
                /\ Len(mret.tools[name]) = Len(ToolsOf(name))
                /\ \A i \in DOMAIN mret.tools[name] :
                      /\ mret.tools[name][i].Name = ToolsOf(name)[i]
                      /\ mret.tools[name][i].Server = name

C18_Witness ==
    /\ MReturned("ListAvailableTools")
    /\ DOMAIN clients = {"s1", "s2", "s3"}
    /\ failedListing = {"s2"}
    /\ DOMAIN mret.tools = {"s1", "s3"}

\* C19: when RefreshToolDiscovery returns with a live server's tools omitted,
\* the discovery was attempted 3 times (DefaultRetryConfig) with a wait
\* between the attempts, and the live map is as before.
C19_RetriedBeforeOmitted ==
    MReturned("RefreshToolDiscovery") =>
        /\ clients = before
        /\ (DOMAIN clients \ DOMAIN mret.tools # {}) =>
              /\ Len(Calls(trace)) = DefaultRetryConfig.MaxRetries
              /\ Len(trace) = 2 * DefaultRetryConfig.MaxRetries - 1

\* a listing failed in the only pass, the server is omitted, nothing was retried
C19_Witness ==
    /\ MReturned("RefreshToolDiscovery")
    /\ DOMAIN clients = {"s1", "s2"}
    /\ failedListing = {"s2"}
    /\ DOMAIN mret.tools = {"s1"}
    /\ mret.err = "nil"
    /\ trace = <<Invoked("nil")>>
    /\ clients = before

(***************************************************************************)
(* C21: cancellation during the wait of RetryOperation.                    *)
(***************************************************************************)
C21_Step ==
    (rpc = "wait" /\ cancelled) =>
        /\ rpc' = "idle"
        /\ rret' = Ret(ErrOperationCancelled, CtxCanceled)
        /\ trace' = Append(trace, Aborted)

\* C21: once the context is cancelled while RetryOperation waits between two
\* attempts, its next step ends the wait and returns "operation cancelled"
\* wrapping the context's error; the delay is not waited out and the
\* operation is not invoked again: the abort is the last event of the call.
C21_CancelDuringWait ==
    /\ [][C21_Step]_vars
    /\ [](\A i \in 1..Len(trace) :
            trace[i].kind = "cancel" =>
                /\ i = Len(trace)
                /\ rpc = "idle"
                /\ rret.msg = ErrOperationCancelled)
    /\ []((RetryReturned /\ cancelledAt = "wait") => rret.msg = ErrOperationCancelled)

C21_Witness ==
    /\ RetryReturned
    /\ retryConfig.MaxRetries = 3
    /\ cancelledAt = "wait"
    /\ rret = Ret(ErrOperationCancelled, CtxCanceled)
    /\ trace = <<Invoked("e1"), Waited(1), Invoked("e2"), Aborted>>

(***************************************************************************)
(* The Manager called from several threads: every method takes m.mu        *)
(* first and releases it in a deferred call.  sync.RWMutex is taken as     *)
(* the readers-writer lock of its documentation: RLock waits while a       *)
(* writer holds the lock, Lock waits while anyone holds it.  (Go also      *)
(* makes new readers wait behind a waiting writer; that only removes       *)
(* interleavings.)                                                         *)
(***************************************************************************)
ReaderOps == {"GetClient", "ListClients", "ListAvailableTools"}
WriterOps == {"ConnectAll", "Close"}

RLockReadyIgnoresWriter(m) == TRUE

LockReadyIgnoresReaders(m) == m.w = NoThread

\* m.mu.RLock() returns
RLockReady(m) == m.w = NoThread

\* m.mu.Lock() returns
LockReady(m) == m.w = NoThread /\ m.r = {}

At(t, op, at) == frames[t].op = op /\ frames[t].pc = at

Goto(t, f) == frames' = [frames EXCEPT ![t] = f]

\* a thread calls a method of the Manager; its first statement takes the lock
Enter(t) ==
    /\ frames[t].pc = "idle"
    /\ \E op \in ReaderOps \cup WriterOps : Goto(t, Frame(op, "lock", 0, {}, EmptyMap))
    /\ UNCHANGED <<mu, clients, outsideLock>>

RLock(t) ==
    /\ frames[t].pc = "lock"
    /\ frames[t].op \in ReaderOps
    /\ RLockReady(mu)
    /\ mu' = [mu EXCEPT !.r = @ \cup {t}]
    /\ Goto(t, Frame(frames[t].op, "body", 1, DOMAIN clients, clients))
    /\ UNCHANGED <<clients, outsideLock>>

Lock(t) ==
    /\ frames[t].pc = "lock"
    /\ frames[t].op \in WriterOps
    /\ LockReady(mu)
    /\ mu' = [mu EXCEPT !.w = t]
    /\ Goto(t, Frame(frames[t].op, "body", 1, DOMAIN clients, clients))
    /\ UNCHANGED <<clients, outsideLock>>

\* client, exists := m.clients[name]; return
GetClient(t) ==
    /\ At(t, "GetClient", "body")
    /\ Goto(t, [frames[t] EXCEPT !.pc = "unlock"])
    /\ UNCHANGED <<mu, clients, outsideLock>>

\* for _, client := range m.clients { clients = append(clients, client) }
ListClients(t) ==
    /\ At(t, "ListClients", "body")
    /\ IF frames[t].left = {}
       THEN Goto(t, [frames[t] EXCEPT !.pc = "unlock"])
       ELSE \E name \in frames[t].left : Goto(t, [frames[t] EXCEPT !.left = @ \ {name}])
    /\ UNCHANGED <<mu, clients, outsideLock>>

\* for name, client := range m.clients { client.ListTools(ctx) ... }
ListToolsRange(t) ==
    /\ At(t, "ListAvailableTools", "body")
    /\ IF frames[t].left = {}
       THEN Goto(t, [frames[t] EXCEPT !.pc = "unlock"])
       ELSE \E name \in frames[t].left : Goto(t, [frames[t] EXCEPT !.left = @ \ {name}])
    /\ UNCHANGED <<mu, clients, outsideLock>>

\* for _, serverCfg := range m.config.Servers: skip, fail, or store the client
ConnectAllRange(t) ==
    /\ At(t, "ConnectAll", "body")
    /\ LET i == frames[t].i
       IN  IF i > Len(servers)
           THEN /\ Goto(t, [frames[t] EXCEPT !.pc = "unlock"])
                /\ UNCHANGED clients
           ELSE IF servers[i] \in DOMAIN clients
           THEN /\ Goto(t, [frames[t] EXCEPT !.i = i + 1])
                /\ UNCHANGED clients
           ELSE \E ok \in BOOLEAN :
                   /\ clients' = IF ok THEN With(clients, servers[i], i) ELSE clients
                   /\ Goto(t, [frames[t] EXCEPT !.i = i + 1, !.seen = clients'])
    /\ UNCHANGED <<mu, outsideLock>>

\* for name, client := range m.clients { client.Close(); delete(m.clients, name) }
CloseRange(t) ==
    /\ At(t, "Close", "body")
    /\ IF frames[t].left = {}
       THEN /\ Goto(t, [frames[t] EXCEPT !.pc = "unlock"])
            /\ UNCHANGED clients
       ELSE \E name \in frames[t].left :
               /\ clients' = Without(clients, name)
               /\ Goto(t, [frames[t] EXCEPT !.left = @ \ {name}, !.seen = clients'])
    /\ UNCHANGED <<mu, outsideLock>>

\* defer m.mu.RUnlock()
RUnlock(t) ==
    /\ frames[t].pc = "unlock"
    /\ frames[t].op \in ReaderOps
    /\ mu' = [mu EXCEPT !.r = @ \ {t}]
    /\ Goto(t, NoCall)
    /\ UNCHANGED <<clients, outsideLock>>

\* defer m.mu.Unlock()
Unlock(t) ==
    /\ frames[t].pc = "unlock"
    /\ frames[t].op \in WriterOps
    /\ mu' = [mu EXCEPT !.w = NoThread]
    /\ Goto(t, NoCall)
    /\ UNCHANGED <<clients, outsideLock>>

InitLock ==
    /\ NewManager(<<"s1", "s2">>)
    /\ LockIdle
    /\ AgentIdle
    /\ ClientIdle
    /\ RetryIdle
    /\ ConfigIdle
    /\ WorkDirIdle
    /\ ArgsIdle

NextLock ==
    \E t \in Threads :
        \/ Enter(t)
        \/ RLock(t)
        \/ Lock(t)
        \/ GetClient(t)
        \/ ListClients(t)
        \/ ListToolsRange(t)
        \/ ConnectAllRange(t)
        \/ CloseRange(t)
        \/ RUnlock(t)
        \/ Unlock(t)

SpecLock == InitLock /\ [][NextLock]_vars

(***************************************************************************)
(* C22: the Manager's lock discipline.                                     *)
(***************************************************************************)
\* the thread is between taking the lock and the deferred release
InCall(t) == frames[t].pc \in {"body", "unlock"}

Reading(t) == InCall(t) /\ frames[t].op \in ReaderOps

Writing(t) == InCall(t) /\ frames[t].op \in WriterOps

\* a reader holds the shared lock and the map is, all along, the map it found
C22_Readers ==
    \A t \in Threads :
        Reading(t) =>
            /\ t \in mu.r
            /\ mu.w = NoThread
            /\ frames[t].seen = clients
            /\ \A u \in Threads : ~Writing(u)

\* a writer holds the exclusive lock from its first statement to its return
C22_Writers ==
    \A t \in Threads :
        Writing(t) =>
            /\ mu.w = t
            /\ mu.r = {}
            /\ frames[t].seen = clients
            /\ \A u \in Threads \ {t} : ~InCall(u)

\* every access to the map is made by a thread holding the lock, and every
\* change of the map by the one thread holding the exclusive lock
C22_Step ==
    /\ \A t \in Threads :
          (frames[t].pc = "body" /\ frames'[t] # frames[t]) =>
              IF frames[t].op \in WriterOps THEN mu.w = t ELSE t \in mu.r
    /\ clients' # clients =>
          \E t \in Threads :
              /\ mu.w = t
              /\ Writing(t)
              /\ frames'[t] # frames[t]
              /\ \A u \in Threads \ {t} : frames'[u] = frames[u]

\* C22: under every interleaving of Manager calls from several threads,
\* GetClient, ListClients and ListAvailableTools run under the shared lock,
\* ConnectAll and Close hold the exclusive lock for their whole duration, no
\* reader sees the map while a writer runs, two writers never overlap and
\* the map is never read or written without the lock.
C22_LockDiscipline ==
    /\ [](C22_Readers /\ C22_Writers)
    /\ [][C22_Step]_vars

\* two readers overlap while a writer waits for the lock
C22_Witness ==
    /\ NumThreads >= 3
    /\ At(1, "GetClient", "body")
    /\ At(2, "ListAvailableTools", "body")
    /\ frames[2].left = {"s2"}
    /\ At(3, "Close", "lock")
    /\ mu = [w |-> NoThread, r |-> {1, 2}]
    /\ DOMAIN clients = {"s1", "s2"}

(***************************************************************************)
(* The registry file: JSON documents, LoadConfig, Save, AddServer,         *)
(* RemoveServer.                                                           *)
(***************************************************************************)
ErrReadingConfig == "reading config file"
ErrParsingConfig == "parsing config file"
ErrInvalidConfig == "invalid configuration"
ErrSavingDefault == "saving default config"
ErrCreatingTemp == "creating temporary file"
ErrWritingConfig == "writing config file"

\* json.MarshalIndent of a ServerConfig: "name" and "command" always, "args"
\* and "env" only when they are not empty (omitempty)
MarshalServer(sc) ==
    [name |-> sc.Name, command |-> sc.Command, args |-> sc.Args, env |-> sc.Env,
     has |-> {"name", "command"}
               \cup (IF Len(sc.Args) > 0 THEN {"args"} ELSE {})
               \cup (IF DOMAIN sc.Env # {} THEN {"env"} ELSE {})]

\* json.Unmarshal into a ServerConfig: a key the object lacks leaves the zero value
UnmarshalServer(j) ==
    ServerConfig(IF "name" \in j.has THEN j.name ELSE "",
                 IF "command" \in j.has THEN j.command ELSE "",
                 IF "args" \in j.has THEN j.args ELSE <<>>,
                 IF "env" \in j.has THEN j.env ELSE EmptyMap)

\* an object written by hand under a map key: no "name" when the key gives it
Keyed(sc) == [MarshalServer(sc) EXCEPT !.has = IF sc.Name = "" THEN @ \ {"name"} ELSE @]

\* the document with only the "servers" array
marshalForSave(list) ==
    Data([i \in 1..Len(list) |-> MarshalServer(list[i])], EmptyMap, TRUE)

\* json.Unmarshal(data, &config): config.Servers
UnmarshalServers(data) == [i \in 1..Len(data.servers) |-> UnmarshalServer(data.servers[i])]

NeedsLegacyMigration(data) == DOMAIN data.mcpServers # {} /\ Len(data.servers) = 0

\* the orders in which range visits the keys of a map
Orders(keys) ==
    {q \in [1..Cardinality(keys) -> keys] : \A i, j \in DOMAIN q : i # j => q[i] # q[j]}

\* the Servers after MigrateFromLegacy when range visits the keys in this order
MigrateFromLegacy(data, order) ==
    [i \in 1..Len(order) |->
        LET serverCfg == UnmarshalServer(data.mcpServers[order[i]])
        IN  IF serverCfg.Name = "" THEN [serverCfg EXCEPT !.Name = order[i]] ELSE serverCfg]

ValidateServerConfig(sc) ==
    IF sc.Name = "" THEN "server name cannot be empty"
    ELSE IF sc.Command = "" THEN "server command cannot be empty"
    ELSE "nil"

\* the error of ValidateConfig: of the first server that is invalid or
\* repeats the name of an earlier one
ValidateConfig(list) ==
    LET bad(i) == \/ ValidateServerConfig(list[i]) # "nil"
                  \/ \E j \in 1..(i - 1) : list[j].Name = list[i].Name
    IN  IF Len(list) = 0 THEN "no servers configured"
        ELSE IF \A i \in 1..Len(list) : ~bad(i) THEN "nil"
        ELSE LET i == CHOOSE k \in 1..Len(list) : bad(k) /\ \A j \in 1..(k - 1) : ~bad(j)
             IN  IF ValidateServerConfig(list[i]) # "nil"
                 THEN ValidateServerConfig(list[i])
                 ELSE "duplicate server name"

\* LoadConfig's last statements: validate, return the config or an error
Validated(c) ==
    LET err == ValidateConfig(c.Servers)
    IN  /\ cfg' = IF err = "nil" THEN c ELSE NilConfig
        /\ cret' = IF err = "nil" THEN CRet("LoadConfig", "nil", "nil")
                   ELSE CRet("LoadConfig", ErrInvalidConfig, err)

\* pkg/mcp/default_config.json: one default entry
DefaultServers == <<ServerConfig("b", "uvx", <<>>, EmptyMap)>>

ServerLists == UNION {[1..n -> ServerConfigs] : n \in 0..MaxServers}

LegacyKeys == {"a", "b"}

ListDocuments == {marshalForSave(list) : list \in ServerLists}

LegacyDocuments ==
    {Data(<<>>, keyed, TRUE) :
        keyed \in UNION {[keys -> {Keyed(sc) : sc \in ServerConfigs}] :
                            keys \in (SUBSET LegacyKeys) \ {{}}}}

Perms == {"0600", "0644"}

\* Save returns to its caller, after the deferred os.Remove(tmpPath)
SaveReturn(who, c, err) ==
    /\ cpc' = "idle"
    /\ tmp' = NoFile
    /\ IF who = "Save"
       THEN /\ cfg' = c
            /\ cret' = IF err = "nil" THEN CRet("Save", "nil", "nil")
                       ELSE CRet("Save", ErrWritingConfig, err)
       ELSE IF who = "default"
       THEN /\ cfg' = IF err = "nil" THEN c ELSE NilConfig
            /\ cret' = IF err = "nil" THEN CRet("LoadConfig", "nil", "nil")
                       ELSE CRet("LoadConfig", ErrSavingDefault, err)
       ELSE Validated(c)

\* Save(path): MkdirAll, marshalForSave, then atomicWriteFile creates the
\* temporary file next to the target
BeginSave(who, c) ==
    /\ saving' = [list |-> c.Servers, data |-> marshalForSave(c.Servers)]
    /\ prev' = target
    /\ steps' = <<>>
    /\ cont' = who
    /\ \/ /\ cpc' = "write"
          /\ tmp' = File(Truncated, "0600")
          /\ cfg' = c
          /\ UNCHANGED cret
       \/ SaveReturn(who, c, ErrCreatingTemp)
    /\ UNCHANGED <<target, written>>

\* the histories of the last Save are about that Save only
ForgetSave ==
    /\ saving' = NothingToSave
    /\ prev' = NoFile
    /\ steps' = <<>>

Save ==
    /\ cpc = "idle"
    /\ ~cfg.nil
    /\ BeginSave("Save", cfg)
    /\ source' = "none"
    /\ UNCHANGED outsideConfig

\* one file operation of atomicWriteFile on the temporary file: it succeeds,
\* or it fails and atomicWriteFile returns its error
TmpStep(at, op, next, after) ==
    /\ cpc = at
    /\ steps' = Append(steps, op)
    /\ \/ /\ tmp' = after
          /\ cpc' = next
          /\ UNCHANGED <<cfg, cret>>
       \/ SaveReturn(cont, cfg, op)
    /\ UNCHANGED <<target, written, cont, saving, prev, source, outsideConfig>>

WriteInPlace ==
    /\ cpc = "write"
    /\ steps' = Append(steps, "write")
    /\ \/ /\ target' = File(saving.data, "0644")
          /\ cpc' = "sync"
          /\ UNCHANGED <<cfg, cret, tmp>>
       \/ /\ target' = File(Truncated, "0644")
          /\ SaveReturn(cont, cfg, "write")
    /\ UNCHANGED <<written, cont, saving, prev, source, outsideConfig>>

TmpFileWrite == TmpStep("write", "write", "sync", [tmp EXCEPT !.data = saving.data])

TmpFileSync == TmpStep("sync", "sync", "close", tmp)

TmpFileClose == TmpStep("close", "close", "chmod", tmp)

OsChmod == TmpStep("chmod", "chmod", "rename", [tmp EXCEPT !.perm = "0600"])

\* os.Rename(tmpPath, path), then return
OsRename ==
    /\ cpc = "rename"
    /\ steps' = Append(steps, "rename")
    /\ \/ /\ target' = tmp
          /\ written' = [saved |-> TRUE, servers |-> saving.list]
          /\ SaveReturn(cont, cfg, "nil")
       \/ /\ SaveReturn(cont, cfg, "rename")
          /\ UNCHANGED <<target, written>>
    /\ UNCHANGED <<cont, saving, prev, source, outsideConfig>>

\* LoadConfig when no file exists: the default configuration is saved and returned
LoadConfigDefault ==
    /\ cpc = "idle"
    /\ ~target.exists
    /\ source' = "absent"
    /\ BeginSave("default", Config(DefaultServers))
    /\ UNCHANGED outsideConfig

LoadConfigFails ==
    /\ cpc = "idle"
    /\ target.exists
    /\ source' = "disk"
    /\ cfg' = NilConfig
    /\ \/ cret' = CRet("LoadConfig", ErrReadingConfig, "nil")
       \/ /\ ~target.data.complete
          /\ cret' = CRet("LoadConfig", ErrParsingConfig, "nil")
    /\ ForgetSave
    /\ UNCHANGED <<target, tmp, cpc, cont, written, outsideConfig>>

\* LoadConfig of a document in the list format
LoadConfigList ==
    /\ cpc = "idle"
    /\ target.exists
    /\ target.data.complete
    /\ ~NeedsLegacyMigration(target.data)
    /\ source' = IF written.saved THEN "saved" ELSE "disk"
    /\ Validated(Config(UnmarshalServers(target.data)))
    /\ ForgetSave
    /\ UNCHANGED <<target, tmp, cpc, cont, written, outsideConfig>>

\* LoadConfig of a legacy document: migrate, save, then validate
LoadConfigLegacy ==
    /\ cpc = "idle"
    /\ target.exists
    /\ target.data.complete
    /\ NeedsLegacyMigration(target.data)
    /\ source' = "legacy"
    /\ \E order \in Orders(DOMAIN target.data.mcpServers) :
          BeginSave("migrate", Config(MigrateFromLegacy(target.data, order)))
    /\ UNCHANGED outsideConfig

AddServer ==
    /\ cpc = "idle"
    /\ ~cfg.nil
    /\ Len(cfg.Servers) < MaxServers
    /\ \E sc \in ServerConfigs : cfg' = Config(Append(cfg.Servers, sc))
    /\ cret' = CRet("AddServer", "nil", "nil")
    /\ ForgetSave
    /\ source' = "none"
    /\ UNCHANGED <<target, tmp, cpc, cont, written, outsideConfig>>

\* the list without its element i
RemoveAt(list, i) == [k \in 1..(Len(list) - 1) |-> IF k < i THEN list[k] ELSE list[k + 1]]

RemoveServer ==
    /\ cpc = "idle"
    /\ ~cfg.nil
    /\ \E name \in {sc.Name : sc \in ServerConfigs} :
          LET found == {i \in 1..Len(cfg.Servers) : cfg.Servers[i].Name = name}
          IN  IF found = {}
              THEN /\ cfg' = cfg
                   /\ cret' = CRet("RemoveServer", "nil", "false")
              ELSE /\ cfg' = Config(RemoveAt(cfg.Servers,
                                             CHOOSE i \in found : \A j \in found : i <= j))
                   /\ cret' = CRet("RemoveServer", "nil", "true")
    /\ ForgetSave
    /\ source' = "none"
    /\ UNCHANGED <<target, tmp, cpc, cont, written, outsideConfig>>

InitConfig ==
    /\ target \in {NoFile} \cup {File(data, perm) :
                      data \in ListDocuments \cup LegacyDocuments \cup {Truncated},
                      perm \in Perms}
    /\ ConfigFresh
    /\ AgentIdle
    /\ ClientIdle
    /\ RetryIdle
    /\ ManagerIdle
    /\ LockIdle
    /\ ArgsIdle
    /\ WorkDirIdle

NextConfig ==
    \/ LoadConfigDefault
    \/ LoadConfigFails
    \/ LoadConfigList
    \/ LoadConfigLegacy
    \/ Save
    \/ TmpFileWrite
    \/ TmpFileSync
    \/ TmpFileClose
    \/ OsChmod
    \/ OsRename
    \/ AddServer
    \/ RemoveServer

SpecConfig == InitConfig /\ [][NextConfig]_vars

(***************************************************************************)
(* C23: saving and loading a registry; the legacy format.                  *)
(***************************************************************************)
ServerSet(list) == {list[i] : i \in 1..Len(list)}

LoadReturned == cpc = "idle" /\ cret.op = "LoadConfig"

\* LoadConfig of the file a Save wrote returns the servers that were saved
C23_SaveThenLoad ==
    (LoadReturned /\ source = "saved") =>
        /\ cret.err = "nil"
        /\ ~cfg.nil
        /\ ServerSet(cfg.Servers) = ServerSet(written.servers)

\* the entries of a legacy document, each named by its key when it has no name
NamedByKey(data) ==
    [key \in DOMAIN data.mcpServers |->
        LET sc == UnmarshalServer(data.mcpServers[key])
        IN  ServerConfig(IF sc.Name = "" THEN key ELSE sc.Name, sc.Command, sc.Args, sc.Env)]

\* LoadConfig of a legacy document returns what loading a list document of
\* the same entries returns
C23_LegacyAsList ==
    (LoadReturned /\ source = "legacy") =>
        \E order \in Orders(DOMAIN prev.data.mcpServers) :
            LET list == [i \in 1..Len(order) |-> NamedByKey(prev.data)[order[i]]]
                loaded == UnmarshalServers(marshalForSave(list))
                err == ValidateConfig(loaded)
            IN  /\ cret.wraps = err
                /\ cret.err = (IF err = "nil" THEN "nil" ELSE ErrInvalidConfig)
                /\ cfg.nil <=> err # "nil"
                /\ ~cfg.nil => ServerSet(cfg.Servers) = ServerSet(loaded)

\* the same for the registries that ValidateConfig accepts
SaveThenLoadOfValid ==
    (LoadReturned /\ source = "saved" /\ ValidateConfig(written.servers) = "nil") =>
        /\ cret.err = "nil"
        /\ ~cfg.nil
        /\ cfg.Servers = written.servers

\* C23: for every registry, Save followed by LoadConfig yields the same set
\* of {name, command, args, env} tuples, and a legacy map-keyed document
\* loads as the equivalent list document does.
C23_RoundTrip ==
    /\ C23_SaveThenLoad
    /\ C23_LegacyAsList

\* the registry whose last server was removed is saved, and cannot be loaded
C23_Witness ==
    /\ LoadReturned
    /\ source = "saved"
    /\ written.servers = <<>>
    /\ target = File(marshalForSave(<<>>), "0600")
    /\ cret = CRet("LoadConfig", ErrInvalidConfig, "no servers configured")
    /\ cfg.nil

(***************************************************************************)
(* C24: the registry invariant.                                            *)
(***************************************************************************)
\* C24: every registry obtained from LoadConfig and any sequence of
\* AddServer and RemoveServer has servers with a non-empty name, a
\* non-empty command and pairwise distinct names.
C24_RegistryInvariant ==
    (cpc = "idle" /\ ~cfg.nil) =>
        \A i \in 1..Len(cfg.Servers) :
            /\ cfg.Servers[i].Name # ""
            /\ cfg.Servers[i].Command # ""
            /\ \A j \in 1..Len(cfg.Servers) :
                  i # j => cfg.Servers[i].Name # cfg.Servers[j].Name

\* AddServer has appended a second server named "a", without a command
C24_Witness ==
    /\ cpc = "idle"
    /\ cret.op = "AddServer"
    /\ ~cfg.nil
    /\ Len(cfg.Servers) = 2
    /\ cfg.Servers[1].Name = "a" /\ cfg.Servers[1].Command = "npx"
    /\ cfg.Servers[2].Name = "a" /\ cfg.Servers[2].Command = ""

(***************************************************************************)
(* C25: Save writes the file atomically.                                   *)
(***************************************************************************)
SaveOrder == <<"write", "sync", "close", "chmod", "rename">>

\* a Save is in progress, or was the last operation
SaveSeen == saving # NothingToSave

NewFile == File(saving.data, "0600")

\* the file operations happen in the order of SaveOrder, one per position
C25_Order ==
    /\ Len(steps) <= Len(SaveOrder)
    /\ \A i \in 1..Len(steps) : steps[i] = SaveOrder[i]
    /\ cpc # "idle" => /\ Len(steps) < Len(SaveOrder)
                       /\ cpc = SaveOrder[Len(steps) + 1]

\* the target is the previous file or the complete new one with mode 0600,
\* and the new one only after all five operations
C25_Atomic ==
    SaveSeen =>
        /\ target = prev \/ target = NewFile
        /\ target # prev => (steps = SaveOrder /\ cpc = "idle")
        /\ (cpc = "idle" /\ steps = SaveOrder /\ written.saved
                /\ written.servers = saving.list /\ cret.err = "nil") => target = NewFile

C25_NoTempLeft == cpc = "idle" => tmp = NoFile

C25_Step ==
    target' # target =>
        /\ cpc = "rename"
        /\ tmp = NewFile
        /\ target' = tmp
        /\ tmp' = NoFile

\* C25: Save writes a sibling temporary file, syncs, closes, sets mode 0600
\* and renames, in this order; during and after Save, whichever operation
\* fails, the target is its previous complete content or the complete new
\* content, the new content is at the target only with mode 0600, and no
\* temporary file exists once Save has returned.
C25_AtomicSave ==
    /\ [](C25_Order /\ C25_Atomic /\ C25_NoTempLeft)
    /\ [][C25_Step]_vars

\* the rename failed: the previous file, readable by others, is untouched
C25_Witness ==
    /\ cpc = "idle"
    /\ cret = CRet("Save", ErrWritingConfig, "rename")
    /\ steps = SaveOrder
    /\ prev.exists
    /\ prev.perm = "0644"
    /\ target = prev
    /\ saving.data # prev.data
    /\ tmp = NoFile

(***************************************************************************)
(* C26: MCPTool.Run without a live client.                                 *)
(***************************************************************************)
RunReturned == mpc = "idle" /\ mret.op = "Run"

\* C26: when the manager holds no client for the tool's server, because the
\* server never connected, its Connect failed or the manager was closed,
\* MCPTool.Run returns "MCP server ... not connected" and issues no CallTool;
\* otherwise it issues one CallTool, on that server.
C26_NotConnected ==
    RunReturned =>
        IF mret.server \in DOMAIN clients
        THEN mret.called = <<mret.server>> /\ mret.err # ErrServerNotConnected
        ELSE mret.called = <<>> /\ mret.err = ErrServerNotConnected

\* the manager was closed after s1 had been connected, then the tool was run
C26_Witness ==
    /\ RunReturned
    /\ mret = RunRet("s1", ErrServerNotConnected, <<>>)
    /\ "s1" \in DOMAIN before
    /\ closeLog # {}
    /\ clients = EmptyMap

\* Connect to s1 failed in the last ConnectAll, then the tool was run
RunAfterFailedConnect ==
    /\ RunReturned
    /\ mret = RunRet("s1", ErrServerNotConnected, <<>>)
    /\ \E i \in 1..Len(connectLog) : connectLog[i].name = "s1" /\ ~connectLog[i].ok

\* s1 is not in the registry
RunNeverConnected ==
    /\ RunReturned
    /\ mret = RunRet("s1", ErrServerNotConnected, <<>>)
    /\ \A i \in 1..Len(servers) : servers[i] # "s1"

(***************************************************************************)
(* convertArgsForMCP: key translation and value coercion.  A string is a   *)
(* sequence of characters.                                                 *)
(***************************************************************************)
MaxValueLen == 3

IntVal(n) == [t |-> "int", v |-> n]

\* the float64 m * 10^e
FloatVal(m, e) == [t |-> "float64", v |-> [m |-> m, e |-> e]]

SliceVal == [t |-> "slice", v |-> <<>>]

Lowercase == <<"a", "b", "c", "d", "e", "f", "g", "h", "i", "j", "k", "l", "m", "n", "o", "p", "q", "r", "s", "t", "u", "v", "w", "x", "y", "z">>
Uppercase == <<"A", "B", "C", "D", "E", "F", "G", "H", "I", "J", "K", "L", "M", "N", "O", "P", "Q", "R", "S", "T", "U", "V", "W", "X", "Y", "Z">>
Digits == <<"0", "1", "2", "3", "4", "5", "6", "7", "8", "9">>

Position(c, alphabet) == {i \in 1..Len(alphabet) : alphabet[i] = c}

ToLowerChar(c) ==
    IF Position(c, Uppercase) = {} THEN c
    ELSE Lowercase[CHOOSE i \in Position(c, Uppercase) : TRUE]

ToUpperChar(c) ==
    IF Position(c, Lowercase) = {} THEN c
    ELSE Uppercase[CHOOSE i \in Position(c, Lowercase) : TRUE]

\* strings.ToLower, strings.Contains, strings.HasPrefix
ToLower(s) == [i \in 1..Len(s) |-> ToLowerChar(s[i])]

Contains(s, sub) == Index(s, sub) >= 0

HasPrefix(s, prefix) == Len(s) >= Len(prefix) /\ SubSeq(s, 1, Len(prefix)) = prefix

\* the parts between underscores joined, each part after the first with its
\* first character in upper case, empty parts skipped
RECURSIVE Joined(_, _)
Joined(s, afterUnderscore) ==
    IF s = <<>> THEN <<>>
    ELSE IF Head(s) = "_" THEN Joined(Tail(s), TRUE)
    ELSE <<IF afterUnderscore THEN ToUpperChar(Head(s)) ELSE Head(s)>>
             \o Joined(Tail(s), FALSE)

snakeToCamelCase(s) == IF ~Contains(s, <<"_">>) THEN s ELSE Joined(s, FALSE)

IsDigits(s) == s # <<>> /\ \A i \in 1..Len(s) : Position(s[i], Digits) # {}

RECURSIVE DecimalValue(_)
DecimalValue(s) ==
    IF s = <<>> THEN 0
    ELSE DecimalValue(SubSeq(s, 1, Len(s) - 1)) * 10
            + (CHOOSE i \in Position(s[Len(s)], Digits) : TRUE) - 1

Unsigned(s) == IF s # <<>> /\ s[1] \in {"+", "-"} THEN Tail(s) ELSE s

Sign(s) == IF s # <<>> /\ s[1] = "-" THEN -1 ELSE 1

\* strconv.Atoi: an optional sign and decimal digits (strings of the model
\* are too short to leave the range of int)
AtoiOk(s) == IsDigits(Unsigned(s))

Atoi(s) == Sign(s) * DecimalValue(Unsigned(s))

\* strconv.ParseFloat on the characters of the model: an optional sign, digits
\* with an optional point, an optional exponent
Mantissa(s) ==
    LET body == Unsigned(s)
        e == Index(ToLower(body), <<"e">>)
    IN  IF e < 0 THEN body ELSE SubSeq(body, 1, e)

Exponent(s) ==
    LET body == Unsigned(s)
        e == Index(ToLower(body), <<"e">>)
    IN  IF e < 0 THEN <<"0">> ELSE SubSeq(body, e + 2, Len(body))

IntPart(s) ==
    LET dot == Index(Mantissa(s), <<".">>)
    IN  IF dot < 0 THEN Mantissa(s) ELSE SubSeq(Mantissa(s), 1, dot)

FracPart(s) ==
    LET dot == Index(Mantissa(s), <<".">>)
    IN  IF dot < 0 THEN <<>> ELSE SubSeq(Mantissa(s), dot + 2, Len(Mantissa(s)))

ParseFloatOk(s) ==
    /\ IsDigits(IntPart(s) \o FracPart(s))
    /\ AtoiOk(Exponent(s))

ParseFloat(s) ==
    FloatVal(Sign(s) * DecimalValue(IntPart(s) \o FracPart(s)),
             Atoi(Exponent(s)) - Len(FracPart(s)))

\* int(v) of a float64: the fraction is dropped
Truncate(f) ==
    LET magnitude == IF f.m < 0 THEN -f.m ELSE f.m
        whole == IF f.e >= 0 THEN magnitude * Pow(10, f.e) ELSE magnitude \div Pow(10, -f.e)
    IN  IF f.m < 0 THEN -whole ELSE whole

convertToNumberKeepsStrings(value) ==
    IF value.t = "float64" THEN IntVal(Truncate(value.v)) ELSE value

convertToNumber(value) ==
    IF value.t = "string"
    THEN IF AtoiOk(value.v) THEN IntVal(Atoi(value.v))
         ELSE IF ParseFloatOk(value.v) THEN ParseFloat(value.v)
         ELSE value
    ELSE IF value.t = "float64" THEN IntVal(Truncate(value.v))
    ELSE value

\* strconv.ParseBool
TrueTexts == {<<"1">>, <<"t">>, <<"T">>, <<"T", "R", "U", "E">>, <<"t", "r", "u", "e">>, <<"T", "r", "u", "e">>}
FalseTexts == {<<"0">>, <<"f">>, <<"F">>, <<"F", "A", "L", "S", "E">>, <<"f", "a", "l", "s", "e">>, <<"F", "a", "l", "s", "e">>}

convertToBoolean(value) ==
    IF value.t = "string"
    THEN IF value.v \in TrueTexts THEN BoolVal(TRUE)
         ELSE IF value.v \in FalseTexts THEN BoolVal(FALSE)
         ELSE value
    ELSE IF value.t = "int" THEN BoolVal(value.v # 0)
    ELSE value

NumberPatterns == {<<"n", "u", "m", "b", "e", "r">>, <<"c", "o", "u", "n", "t">>, <<"t", "o", "t", "a", "l">>, <<"m", "a", "x">>, <<"m", "i", "n">>, <<"l", "i", "m", "i", "t">>}
BooleanPrefixes == {<<"i", "s">>, <<"h", "a", "s">>, <<"n", "e", "e", "d", "s">>, <<"e", "n", "a", "b", "l", "e">>}
BooleanPatterns == {<<"r", "e", "q", "u", "i", "r", "e", "d">>, <<"e", "n", "a", "b", "l", "e", "d">>}

convertValueType(paramName, value) ==
    LET lowerName == ToLower(paramName)
    IN  IF \E w \in NumberPatterns : Contains(lowerName, w) THEN convertToNumber(value)
        ELSE IF \/ \E w \in BooleanPrefixes : HasPrefix(lowerName, w)
                \/ \E w \in BooleanPatterns : Contains(lowerName, w)
        THEN convertToBoolean(value)
        ELSE value

\* the keys and the values the callers pass
ArgKeys == {<<"c", "o", "u", "n", "t">>,
      <<"m", "a", "x", "_", "c", "o", "u", "n", "t">>,
      <<"t", "o", "t", "a", "l">>,
      <<"m", "a", "x", "I", "t", "e", "m", "s">>,
      <<"l", "i", "m", "i", "t">>,
      <<"m", "i", "n", "_", "a", "g", "e">>,
      <<"P", "a", "g", "e", "N", "u", "m", "b", "e", "r">>,
      <<"i", "s", "_", "a", "c", "t", "i", "v", "e">>,
      <<"h", "a", "s", "N", "e", "x", "t">>,
      <<"e", "n", "a", "b", "l", "e", "d">>,
      <<"i", "s", "_", "c", "o", "u", "n", "t">>,
      <<"n", "a", "m", "e">>,
      <<"n", "a", "m", "e", "s", "p", "a", "c", "e">>,
      <<"r", "e", "q", "u", "i", "r", "e", "d", "_", "r", "e", "p", "l", "i", "c", "a", "s">>}

ValueChars == {"0", "1", "5", "-", ".", "e", "t", "x"}

ArgStrings == UNION {[1..n -> ValueChars] : n \in 0..MaxValueLen}

ArgValues ==
    {Str(text) : text \in ArgStrings}
        \cup {IntVal(0), IntVal(7), FloatVal(37, -1), FloatVal(-25, -1), FloatVal(4, 0),
              BoolVal(TRUE), BoolVal(FALSE), NilVal, SliceVal}

\* convertArgsForMCP, for one entry of args
convertArgsForMCP ==
    /\ vpc = "args"
    /\ LET convertedKey == snakeToCamelCase(mcpArgs.key)
       IN  convertedArgs' = Entry(convertedKey, convertValueType(convertedKey, mcpArgs.value))
    /\ vpc' = "converted"
    /\ UNCHANGED <<mcpArgs, outsideArgs>>

InitArgs ==
    /\ mcpArgs \in {Entry(key, value) : key \in ArgKeys, value \in ArgValues}
    /\ convertedArgs = NoEntry
    /\ vpc = "args"
    /\ AgentIdle
    /\ ClientIdle
    /\ RetryIdle
    /\ ManagerIdle
    /\ LockIdle
    /\ ConfigIdle
    /\ WorkDirIdle

NextArgs == convertArgsForMCP

SpecArgs == InitArgs /\ [][NextArgs]_vars

(***************************************************************************)
(* C27: coercion of argument values.                                       *)
(***************************************************************************)
\* the key, as the caller wrote it, contains one of the number words
UnderNumberKey == \E w \in NumberPatterns : Contains(mcpArgs.key, w)

\* texts with a known reading
C27_Examples ==
    /\ AtoiOk(<<"5">>) /\ Atoi(<<"5">>) = 5
    /\ AtoiOk(<<"-", "1", "0">>) /\ Atoi(<<"-", "1", "0">>) = -10
    /\ AtoiOk(<<"0", "0", "7">>) /\ Atoi(<<"0", "0", "7">>) = 7
    /\ \A text \in {<<>>, <<"-">>, <<"5", "x">>, <<"1", ".", "5">>, <<"5", "e", "1">>, <<"t">>} :
          ~AtoiOk(text)
    /\ ParseFloatOk(<<"1", ".", "5">>) /\ ParseFloat(<<"1", ".", "5">>) = FloatVal(15, -1)
    /\ ParseFloatOk(<<"5", "e", "1">>) /\ ParseFloatOk(<<".", "5">>) /\ ParseFloatOk(<<"5", ".">>)
    /\ \A text \in {<<>>, <<".">>, <<"e", "5">>, <<"5", "e">>, <<"5", "x">>, <<"0", "x", "5">>,
                    <<"-">>, <<"1", ".", ".">>, <<"t">>} :
          ~ParseFloatOk(text)
    /\ snakeToCamelCase(<<"m", "a", "x", "_", "c", "o", "u", "n", "t">>) = <<"m", "a", "x", "C", "o", "u", "n", "t">>

\* C27: under a key containing count, number, total, max, min or limit a
\* string that parses as an integer is converted to that integer and a
\* string that does not parse as a number is passed through unchanged; a
\* value that cannot be converted is passed through unchanged.
C27_Coercion ==
    /\ C27_Examples
    /\ vpc = "converted" =>
          LET value == mcpArgs.value
              out == convertedArgs.value
              name == ToLower(convertedArgs.key)
              number == \E w \in NumberPatterns : Contains(name, w)
              boolean == /\ ~number
                         /\ \/ \E w \in BooleanPrefixes : HasPrefix(name, w)
                            \/ \E w \in BooleanPatterns : Contains(name, w)
          IN  /\ UnderNumberKey => number
              /\ (UnderNumberKey /\ value.t = "string" /\ AtoiOk(value.v)) =>
                    out = IntVal(Atoi(value.v))
              /\ (UnderNumberKey /\ value.t = "string" /\ ~ParseFloatOk(value.v)) =>
                    out = value
              /\ (number /\ value.t \notin {"string", "float64"}) => out = value
              /\ (boolean /\ value.t = "string"
                    /\ value.v \notin TrueTexts \cup FalseTexts) => out = value
              /\ (boolean /\ value.t \notin {"string", "int"}) => out = value
              /\ (~number /\ ~boolean) => out = value
              /\ out # value => out.t \in {"int", "float64", "bool"}

\* "5" under max_count becomes the integer 5 under maxCount
C27_Witness ==
    /\ vpc = "converted"
    /\ mcpArgs = Entry(<<"m", "a", "x", "_", "c", "o", "u", "n", "t">>, Str(<<"5">>))
    /\ convertedArgs = Entry(<<"m", "a", "x", "C", "o", "u", "n", "t">>, IntVal(5))

\* "5x" under count is passed through
PassedThrough ==
    /\ vpc = "converted"
    /\ mcpArgs = Entry(<<"c", "o", "u", "n", "t">>, Str(<<"5", "x">>))
    /\ convertedArgs = mcpArgs

(***************************************************************************)
(* C28: cancellation of the caller's context during Connect.               *)
(***************************************************************************)
\* the last request caller g sent was answered with an error
LastFailed(g) == wire[g] # <<>> /\ ~wire[g][Len(wire[g])].ok

C28_Step ==
    \A g \in Callers :
        (~overlapped /\ ctxDone[g] /\ gpc[g] \in InFlight /\ gpc'[g] # gpc[g]) =>
            /\ LastFailed(g)'
            /\ gpc'[g] = "idle" =>
                /\ ret'[g].err \in {ErrInitializing, ErrVerifying}
                /\ client' = NilClient
                /\ AllClosed'

\* C28: in calls that do not overlap, once the caller's context is cancelled
\* while Connect is in the handshake or the verification, the step in flight
\* and every later step end with an error, Connect returns a non-nil error,
\* the handle is nil and every transport is closed.
C28_CancelFailsConnect == [][C28_Step]_vars

\* the same, for the Connect whose step contexts derive from the caller's ctx
C28_WithCallerParent == [][parent = "ctx" => C28_Step]_vars

\* ctx was cancelled during the handshake, and Connect returned nil with the
\* client connected
C28_Witness ==
    /\ ~overlapped
    /\ parent = "background"
    /\ gpc["g1"] = "idle"
    /\ ctxDone["g1"]
    /\ wire["g1"] = <<Exchange("Initialize", TRUE), Exchange("ListTools", TRUE)>>
    /\ ret["g1"] = Returned("Connect", "nil", 4)
    /\ client = 1
    /\ transports = <<0>>

\* with ctx as the parent: cancelled during the first listing, which fails, as
\* does the ping, and Connect returned the verification error after cleanup
C28_CancelledInListing ==
    /\ ~overlapped
    /\ parent = "ctx"
    /\ gpc["g1"] = "idle"
    /\ ctxDone["g1"]
    /\ wire["g1"] = <<Exchange("Initialize", TRUE), Exchange("ListTools", FALSE),
                      Exchange("Ping", FALSE)>>
    /\ ret["g1"].err = ErrVerifying
    /\ client = NilClient
    /\ transports = <<1>>

(***************************************************************************)
(* C30: the verification step of Connect.                                  *)
(***************************************************************************)
\* the positions of wire w that hold a request of the operation
Sent(w, op) == {i \in 1..Len(w) : w[i].op = op}

\* the requests of the verification step: those after the handshake
Verification(w) == SubSeq(w, 2, Len(w))

VerificationOrder(v) ==
    /\ Cardinality(Sent(v, "ListTools")) <= 2
    /\ Cardinality(Sent(v, "Ping")) <= 1
    /\ v # <<>> => v[1].op = "ListTools"
    /\ \A i \in Sent(v, "Ping") : i = 2 /\ ~v[1].ok
    /\ \A i \in Sent(v, "ListTools") : i # 1 => (i = 3 /\ v[2] = Exchange("Ping", TRUE))
    /\ \A i \in 1..Len(v) : (v[i].op = "ListTools" /\ v[i].ok) => i = Len(v)
    /\ \A i \in 1..Len(v) : (v[i].op = "Ping" /\ ~v[i].ok) => i = Len(v)

\* the Connect of g went through the verification step and has returned
Verified(g) ==
    /\ gpc[g] = "idle"
    /\ ret[g].call = "Connect"
    /\ Verification(wire[g]) # <<>>

\* C30: in the verification step of Connect the listing is attempted first; a
\* ping is sent only after that listing failed; the listing is retried once,
\* and only after the ping succeeded; a failed ping ends the step; at most two
\* listings and one ping are sent; and a Connect that has gone through the
\* step returned nil exactly if its first or its retried listing succeeded,
\* and if the first one failed and the ping succeeded, it did retry.
C30_Verification ==
    \A g \in Callers :
        /\ VerificationOrder(Verification(wire[g]))
        /\ wire[g] # <<>> => wire[g][1].op = "Initialize"
        /\ Verified(g) =>
            /\ ret[g].err = "nil" <=> (\E i \in Sent(wire[g], "ListTools") : wire[g][i].ok)
            /\ ret[g].err # "nil" => ret[g].err = ErrVerifying
            /\ wire[g][Len(wire[g])] # Exchange("Ping", TRUE)
            /\ Len(wire[g]) > 2 \/ wire[g][2].ok

\* the first listing failed, the ping succeeded and the retried listing
\* succeeded: Connect returned nil after five operations
C30_Witness ==
    /\ gpc["g1"] = "idle"
    /\ wire["g1"] = <<Exchange("Initialize", TRUE), Exchange("ListTools", FALSE),
                      Exchange("Ping", TRUE), Exchange("ListTools", TRUE)>>
    /\ ret["g1"] = Returned("Connect", "nil", 6)
    /\ client = 1

\* the ping failed: Connect returned the verification error without a second listing
C30_FailedPing ==
    /\ gpc["g1"] = "idle"
    /\ wire["g1"] = <<Exchange("Initialize", TRUE), Exchange("ListTools", FALSE),
                      Exchange("Ping", FALSE)>>
    /\ ret["g1"] = Returned("Connect", ErrVerifying, 5)
    /\ ~ctxDone["g1"]

(***************************************************************************)
(* C29: what CallTool returns for the answer of the server.                *)
(***************************************************************************)
\* the last call of g was a CallTool that the server answered with a reply
Answered(g) ==
    /\ ret[g].call = "CallTool"
    /\ reply[g] # NoResult
    /\ reply[g].answer.err = "nil"

\* C29: a CallTool on a connected client that the server answered with an
\* error response returned an error and no string: "tool error: " and the
\* first content item when that is text, "tool returned an error" otherwise;
\* answered with another response it returned nil and the text of the first
\* content item when that is text, the fixed placeholder otherwise.
C29_CallToolAnswer ==
    \A g \in Callers :
        Answered(g) =>
            LET a == reply[g].answer
                first == a.Content[1]
            IN  /\ a.IsError =>
                    /\ ret[g].err # "nil"
                    /\ reply[g].text = ""
                    /\ ret[g].err = IF FirstIsText(a.Content)
                                    THEN "tool error: " \o first.text
                                    ELSE "tool returned an error"
                /\ ~a.IsError =>
                    /\ ret[g].err = "nil"
                    /\ reply[g].text =
                         IF FirstIsText(a.Content)
                         THEN first.text
                         ELSE "Tool executed successfully, but no text content was returned"

\* an error response whose first item is text, after a Connect
C29_Witness ==
    /\ ~overlapped
    /\ client = 1
    /\ ret["g1"] = Returned("CallTool", "tool error: pods", 1)
    /\ reply["g1"] = [answer |-> CallToolResult(<<TextContent("pods"), ImageContent>>, TRUE),
                       text |-> ""]

\* a response without text in the first place: the placeholder is returned
C29_Placeholder ==
    /\ ~overlapped
    /\ client = 1
    /\ ret["g1"] = Returned("CallTool", "nil", 1)
    /\ reply["g1"] = [answer |-> CallToolResult(<<ImageContent, TextContent("pods")>>, FALSE),
                       text |-> NoTextContent]

(***************************************************************************)
(* C31: the shim stops reading at the first complete block.                *)
(***************************************************************************)
\* the text holds an opening marker and a closing marker after it
HasCompleteBlock(s) == FirstWindow(s) # <<>>

\* the elements of the model's stream read in this step
Consumed == SubSeq(rest, 1, Len(rest) - Len(rest'))

C31_Step ==
    EnableToolUseShim =>
        /\ (pc = "streaming" /\ rest' # rest) =>
              /\ ~HasCompleteBlock(buffer)
              /\ rest = Consumed \o rest'
              /\ HasCompleteBlock(buffer \o Consumed) => pc' \in {"dispatch", "idle"}
        /\ (pc \in {"dispatch", "confirm", "invoke"}) => rest' = rest
        /\ (pc # "streaming" /\ pc' = "streaming") => sent' = sent + 1
        /\ (functionCalls' # functionCalls /\ functionCalls' # <<>>) =>
              pc = "streaming" /\ pc' = "dispatch" /\ functionCalls = <<>>

\* C31: in shim mode an element of the model's stream is read only while the
\* text buffered so far holds no complete fenced block; the fragment that
\* completes one is the last element read in the turn (the shim yields and the
\* turn leaves the stream), what the model would stream after it stays unread
\* while the calls are dispatched, and the calls of a turn come from one
\* response of the shim.
C31_StopsAtFirstBlock ==
    /\ [][C31_Step]_vars
    /\ []((EnableToolUseShim /\ pc = "streaming") => ~HasCompleteBlock(buffer))

\* the fragment that completed the first of two blocks was the last one read:
\* the second block is still unread while the call of the first is dispatched
C31_Witness ==
    /\ EnableToolUseShim
    /\ pc = "dispatch"
    /\ turnText = TextTwo
    /\ rest = <<SP>> \o Block(<<"{", MActionYes, "}">>)
    /\ Len(functionCalls) = 1
    /\ functionCalls[1].Name = "foo"

(***************************************************************************)
(* C32: nothing is dispatched before the stream of the turn has ended.     *)
(***************************************************************************)
\* the errors with which a round ends while its stream is being read
StreamErrors ==
    {ErrStream, ErrNoCandidates, ErrShimNoCandidates, ErrShimNoText, ErrShimParse}

C32_State ==
    /\ pc = "streaming" =>
          /\ log = <<>>
          /\ callIdx = 1
          /\ currChatContent = <<>>
    /\ (pc = "idle" /\ result \in StreamErrors) =>
          /\ log = <<>>
          /\ callIdx = 1
          /\ currChatContent = <<>>

C32_Step ==
    /\ pc' \in {"confirm", "invoke"} => pc \in {"dispatch", "confirm", "invoke"}
    /\ (log' # log /\ log' # <<>>) => pc \in {"dispatch", "confirm", "invoke"}
    /\ (pc = "streaming" /\ pc' # "streaming") =>
          \/ pc' = "dispatch" /\ result' = Running
          \/ pc' = "idle" /\ result' \in StreamErrors
          \/ pc' = "panic"
    /\ (pc \in {"dispatch", "confirm", "invoke"} /\ pc' = "idle") => result' \notin StreamErrors

\* C32: while the stream of a turn is read no call of the turn has been
\* prompted for or run and nothing is pending for the next turn; resolution,
\* prompt and invocation happen only after the stream has ended; a stream
\* that yields an error or a response without candidates ends the round with
\* a non-nil error, whatever calls were accumulated, and none of them has
\* been prompted for or run.
C32_DispatchAfterStream == [](C32_State) /\ [][C32_Step]_vars

\* the stream failed after two calls had been accumulated
C32_Witness ==
    /\ ~EnableToolUseShim
    /\ pc = "idle"
    /\ result = ErrNoCandidates
    /\ Len(functionCalls) = 2
    /\ log = <<>>
    /\ sent = 2

(***************************************************************************)
(* C33: every round ends.                                                  *)
(***************************************************************************)
\* C33: when streams are finite, tools return and prompts are answered, every
\* call of RunOneRound returns, nil or an error, after at most MaxIterations
\* requests to the model.
C33_RoundReturns ==
    /\ [](sent <= MaxIterations)
    /\ (pc # "idle") ~> (pc = "idle")

\* the same, for rounds whose shim is not handed a nil element: every round
\* returns or has panicked
C33_ReturnsOrPanics ==
    /\ [](sent <= MaxIterations)
    /\ (pc # "idle") ~> (pc \in {"idle", "panic"})

\* the round panicked in its last turn, after the calls of the earlier turns ran
C33_Witness ==
    /\ pc = "panic"
    /\ MaxIterations = 3
    /\ sent = 3
    /\ currentIteration = 2

(***************************************************************************)
(* C34: resolution and execution of the calls of a turn.                   *)
(***************************************************************************)
\* C34: when a call of a turn fails to resolve the round fails and no call
\* of that turn has been run.
C34_ResolvedBeforeRun ==
    (pc = "idle" /\ result = ErrBuild) => \A i \in 1..Len(functionCalls) : ~Executed(i)

\* what the loop does: when the k-th call fails to resolve the round fails,
\* the calls before it have been run or declined, and no later call has
\* been touched
C34_OneCallAtATime ==
    (pc = "idle" /\ result = ErrBuild) =>
        /\ callIdx \in 1..Len(functionCalls)
        /\ \A i \in 1..(callIdx - 1) : HasEvent("exec", i) \/ HasEvent("declined", i)
        /\ \A k \in 1..Len(log) : log[k].i < callIdx

\* the second call of a turn failed to resolve after the first had been run
C34_Witness ==
    /\ pc = "idle"
    /\ result = ErrBuild
    /\ callIdx = 2
    /\ log = <<Event("exec", 1)>>
    /\ Len(currChatContent) = 1

(***************************************************************************)
(* C35: the pending content of the next turn.                              *)
(***************************************************************************)
\* what the i-th call of the turn leaves for the next turn
LeftBy(i) ==
    IF HasEvent("declined", i)
    THEN [kind |-> "declined", id |-> "", name |-> functionCalls[i].Name]
    ELSE IF EnableToolUseShim
    THEN [kind |-> "observation", id |-> "", name |-> functionCalls[i].Name]
    ELSE [kind |-> "result", id |-> functionCalls[i].ID, name |-> functionCalls[i].Name]

C35_State ==
    /\ (pc = "loop" /\ currentIteration = 0) => currChatContent = <<Query>>
    /\ (pc = "loop" /\ currentIteration > 0) =>
          /\ Len(currChatContent) = Len(functionCalls)
          /\ \A i \in 1..Len(functionCalls) :
                /\ currChatContent[i] = LeftBy(i)
                /\ HasEvent("declined", i) # HasEvent("exec", i)
          /\ ~EnableToolUseShim =>
                \A i, j \in 1..Len(functionCalls) :
                    functionCalls[i].ID = functionCalls[j].ID => i = j
    /\ pc = "streaming" => currChatContent = <<>>

C35_Step ==
    sent' = sent + 1 =>
        /\ pc = "loop"
        /\ pc' = "streaming" => currChatContent' = <<>>

\* C35: the content pending when a turn after the first begins has one
\* element per call of the previous turn, in the order of the calls: the
\* "User didn't approve" observation for a declined call, and for a call that
\* ran the "Result of running" observation in the shim path, a
\* FunctionCallResult with the ID and the Name of that very call in the native
\* path; the first turn sends the query alone; a send empties the pending
\* content.
C35_PendingContent == [](C35_State) /\ [][C35_Step]_vars

\* native path: the first call was declined, the second ran
C35_Witness ==
    /\ ~EnableToolUseShim
    /\ pc = "loop"
    /\ currentIteration = 2
    /\ Len(functionCalls) = 2
    /\ currChatContent = <<Declined(functionCalls[1].Name),
                           FunctionCallResult("2", functionCalls[2].Name)>>

(***************************************************************************)
(* C36: the clients of the live map.                                       *)
(***************************************************************************)
\* C36: in every state reached by ConnectAll and Close, every key of the
\* live map is the name of a configured server and the Name of the client
\* stored under it, that client's Connect returned nil (handshake and
\* verification done, handle set) and Close has not been called on it, no two
\* keys share a client, and no client whose Connect failed in this ConnectAll
\* is in the map.
C36_LiveClients ==
    /\ DOMAIN objs = Values(clients)
    /\ \A name \in DOMAIN clients :
          /\ \E i \in DOMAIN servers : servers[i] = name
          /\ objs[clients[name]] = [Name |-> name, connected |-> TRUE, closed |-> FALSE]
          /\ \A other \in DOMAIN clients : clients[other] = clients[name] => other = name
    /\ \A i \in DOMAIN connectLog :
          ~connectLog[i].ok => connectLog[i].id \notin Values(clients)

\* a ConnectAll after a Close: s1 connected again, with a new client, and the
\* client of s2, whose Connect failed, is not stored
C36_Witness ==
    /\ MReturned("ConnectAll")
    /\ servers = <<"s1", "s2">>
    /\ made = 4
    /\ connectLog = <<Connected("s1", 3, TRUE), Connected("s2", 4, FALSE)>>
    /\ DOMAIN clients = {"s1"}
    /\ objs = With(EmptyMap, 3, ClientObject("s1", TRUE, FALSE))

(***************************************************************************)
(* C37: CallTool of one caller and Close of another, no lock held.         *)
(***************************************************************************)
\* the CallTool of g sent its request on a transport that was already closed
SentOnClosed(g) == ret[g].call = "CallTool" /\ reply[g].answer = CallToolOnClosed

\* the CallTool of g passed the connected check and then used a nil handle
CallToolPanicked(g) == ret[g].call = "CallTool" /\ gpc[g] = "panic"

\* C37: whatever another caller's Close does meanwhile, a CallTool never
\* sends its request on a transport that is already closed and never uses a
\* handle that Close has set to nil after the connected check: it completes
\* on a live transport or returns "not connected".
C37_CallToolVsClose ==
    \A g \in Callers :
        /\ ~SentOnClosed(g)
        /\ ~CallToolPanicked(g)
        /\ (gpc[g] = "idle" /\ ret[g].call = "CallTool") =>
              \/ ret[g] = Returned("CallTool", ErrNotConnected, 0)
              \/ reply[g].answer \in Answers

\* g1 connected the client; its CallTool passed the check, g2's Close closed
\* the transport and reset the handle, and the call of g1 used the nil handle
C37_Witness ==
    /\ CallToolPanicked("g1")
    /\ ret["g2"] = Returned("Close", "nil", 1)
    /\ gpc["g2"] = "idle"
    /\ client = NilClient
    /\ transports = <<1>>

\* Close of g2 has closed the transport but not yet reset the handle, and the
\* request of g1 went to the closed transport
C37_SentOnClosed ==
    /\ SentOnClosed("g1")
    /\ gpc["g1"] = "idle"
    /\ gpc["g2"] = "closing"
    /\ client = 1
    /\ transports = <<1>>

(***************************************************************************)
(* Conversation.Init and Conversation.Close: the temporary working         *)
(* directory.                                                              *)
(***************************************************************************)
MaxDirs == 3

ErrMkdirTemp == "mkdir temp"
ErrGeneratingPrompt == "generating system prompt"
ErrSettingDefinitions == "setting function definitions"

\* workDir, err := os.MkdirTemp("", "agent-workdir-*") fails: return err
MkdirTempFails ==
    /\ wpc = "idle"
    /\ newDir' = NoDir
    /\ wret' = Left("Init", ErrMkdirTemp, "none")
    /\ UNCHANGED <<disk, workDir, RemoveWorkDir, dirsMade, wpc, agentVars, outsideWorkDir>>

\* os.MkdirTemp creates a directory with a name of its own
MkdirTemp ==
    /\ wpc = "idle"
    /\ dirsMade < MaxDirs
    /\ dirsMade' = dirsMade + 1
    /\ disk' = disk \cup {dirsMade + 1}
    /\ newDir' = dirsMade + 1
    /\ wpc' = "prompt"
    /\ wret' = Left("Init", Pending, "none")
    /\ UNCHANGED <<workDir, RemoveWorkDir, agentVars, outsideWorkDir>>

\* s.generatePrompt fails: return "generating system prompt"
GeneratePromptFails ==
    /\ wpc = "prompt"
    /\ wpc' = "idle"
    /\ wret' = Left("Init", ErrGeneratingPrompt, "none")
    /\ UNCHANGED <<disk, workDir, RemoveWorkDir, newDir, dirsMade, agentVars, outsideWorkDir>>

\* the prompt is generated and the chat started; function definitions are set
\* only without the shim
StartChat ==
    /\ wpc = "prompt"
    /\ wpc' = IF EnableToolUseShim THEN "record" ELSE "definitions"
    /\ UNCHANGED <<disk, workDir, RemoveWorkDir, newDir, dirsMade, wret, agentVars,
                   outsideWorkDir>>

\* s.llmChat.SetFunctionDefinitions fails: return "setting function definitions"
SetFunctionDefinitionsFails ==
    /\ wpc = "definitions"
    /\ wpc' = "idle"
    /\ wret' = Left("Init", ErrSettingDefinitions, "none")
    /\ UNCHANGED <<disk, workDir, RemoveWorkDir, newDir, dirsMade, agentVars, outsideWorkDir>>

SetFunctionDefinitions ==
    /\ wpc = "definitions"
    /\ wpc' = "record"
    /\ UNCHANGED <<disk, workDir, RemoveWorkDir, newDir, dirsMade, wret, agentVars,
                   outsideWorkDir>>

\* s.workDir = workDir; s.doc = doc; return nil
InitReturn ==
    /\ wpc = "record"
    /\ workDir' = newDir
    /\ wpc' = "idle"
    /\ wret' = Left("Init", "nil", "none")
    /\ UNCHANGED <<disk, RemoveWorkDir, newDir, dirsMade, agentVars, outsideWorkDir>>

\* Close with no directory recorded, or RemoveWorkDir not set: return nil
CloseKeeps ==
    /\ wpc = "idle"
    /\ workDir = NoDir \/ ~RemoveWorkDir
    /\ wret' = Left("Close", "nil", "none")
    /\ UNCHANGED <<disk, workDir, RemoveWorkDir, newDir, dirsMade, wpc, agentVars,
                   outsideWorkDir>>

\* os.RemoveAll(c.workDir) returns nil (also when the directory is gone already)
CloseRemoves ==
    /\ wpc = "idle"
    /\ workDir # NoDir
    /\ RemoveWorkDir
    /\ disk' = disk \ {workDir}
    /\ wret' = Left("Close", "nil", "removed")
    /\ UNCHANGED <<workDir, RemoveWorkDir, newDir, dirsMade, wpc, agentVars, outsideWorkDir>>

\* os.RemoveAll fails: a warning is logged and Close returns nil
CloseRemoveFails ==
    /\ wpc = "idle"
    /\ workDir \in disk
    /\ RemoveWorkDir
    /\ wret' = Left("Close", "nil", "failed")
    /\ UNCHANGED <<disk, workDir, RemoveWorkDir, newDir, dirsMade, wpc, agentVars,
                   outsideWorkDir>>

InitWorkDir ==
    /\ disk = {}
    /\ workDir = NoDir
    /\ RemoveWorkDir \in BOOLEAN
    /\ newDir = NoDir
    /\ dirsMade = 0
    /\ wpc = "idle"
    /\ wret = Left("none", "nil", "none")
    /\ pc = "idle"
    /\ SkipPermissions = FALSE
    /\ EnableToolUseShim \in BOOLEAN
    /\ MaxIterations = 0
    /\ currentIteration = 0
    /\ currChatContent = <<>>
    /\ functionCalls = <<>>
    /\ callIdx = 1
    /\ buffer = <<>>
    /\ turnText = <<>>
    /\ rest = <<>>
    /\ result = "none"
    /\ sent = 0
    /\ log = <<>>
    /\ errorBlocks = 0
    /\ choseTwo = "no"
    /\ ClientIdle
    /\ RetryIdle
    /\ ManagerIdle
    /\ LockIdle
    /\ ConfigIdle
    /\ ArgsIdle

NextWorkDir ==
    \/ MkdirTempFails
    \/ MkdirTemp
    \/ GeneratePromptFails
    \/ StartChat
    \/ SetFunctionDefinitionsFails
    \/ SetFunctionDefinitions
    \/ InitReturn
    \/ CloseKeeps
    \/ CloseRemoves
    \/ CloseRemoveFails

SpecWorkDir == InitWorkDir /\ [][NextWorkDir]_vars

(***************************************************************************)
(* C38: the working directory is owned by the Conversation.                *)
(***************************************************************************)
\* the last call was an Init that has returned
InitReturned == wpc = "idle" /\ wret.call = "Init"

\* an Init that returned nil recorded the directory it created; Close returns
\* nil whatever the removal did, and after a Close with RemoveWorkDir whose
\* removal did not fail the recorded directory is not on disk
C38_RecordedAndRemoved ==
    /\ (InitReturned /\ wret.err = "nil") => (newDir \in disk /\ workDir = newDir)
    /\ wret.call = "Close" => wret.err = "nil"
    /\ (wret.call = "Close" /\ RemoveWorkDir /\ wret.removal # "failed") => workDir \notin disk

\* C38: a directory created by Init is recorded in workDir when Init returns
\* nil, and is not left on disk unrecorded when Init returns an error; Close
\* removes the recorded directory when RemoveWorkDir is set and returns nil
\* also when the removal fails.
C38_OwnedWorkDir ==
    /\ C38_RecordedAndRemoved
    /\ (InitReturned /\ wret.err # "nil" /\ newDir # NoDir) =>
          (newDir \notin disk \/ workDir = newDir)

\* the first Init created directory 1 and failed to generate the prompt: the
\* directory is on disk and the Conversation has no record of it
C38_Witness ==
    /\ InitReturned
    /\ wret.err = ErrGeneratingPrompt
    /\ dirsMade = 1
    /\ disk = {1}
    /\ workDir = NoDir
    /\ RemoveWorkDir

\* the same after a failure to set the function definitions, without the shim
C38_DefinitionsFail ==
    /\ InitReturned
    /\ wret.err = ErrSettingDefinitions
    /\ ~EnableToolUseShim
    /\ dirsMade = 1
    /\ disk = {1}
    /\ workDir = NoDir

\* the removal failed: Close returned nil and the directory is still there
C38_RemovalFails ==
    /\ wret = Left("Close", "nil", "failed")
    /\ workDir = 1
    /\ disk = {1}

(***************************************************************************)
(* C39: a nil element of the model's stream in shim mode.                  *)
(***************************************************************************)
\* the shim's stream is left by a decision on the buffered text or by an
\* error returned to the caller
ShimStreamLeft == pc' \in {"dispatch", "idle"}

C39_Step ==
    (EnableToolUseShim /\ pc = "streaming" /\ pc' # "streaming") =>
        /\ ShimStreamLeft
        /\ result' # "panic"

\* C39: in shim mode no element of the model's stream, the terminal nil
\* element included, makes the shim dereference nil: the stream is left only
\* with the decision taken from the buffered text or with an error that
\* RunOneRound returns.
C39_NilEndsStream == [][C39_Step]_vars

\* first turn, the whole text of the model was read and holds no block (the
\* null result was due), and the nil element that ends the stream was
\* dereferenced
C39_Witness ==
    /\ pc = "panic"
    /\ result = "panic"
    /\ EnableToolUseShim
    /\ sent = 1
    /\ currentIteration = 0
    /\ buffer # <<>>
    /\ buffer = turnText
    /\ rest = <<>>
    /\ ~HasCompleteBlock(buffer)
====
